---- MODULE Spec2Model ----
(***************************************************************************)
(* Model of the reddit-stock-crawler ticker pipeline:                      *)
(*   - the Mention Extractor (TICKER_RE, AMBIGUOUS, extract_mentions),     *)
(*   - the Symbol Normalizer (clean) of build_ticker_list.py,              *)
(*   - the Aggregator (update_daily_stats, update_trend_alerts) over the   *)
(*     relational store.                                                   *)
(* Strings are sequences of one-character strings.                         *)
(***************************************************************************)
EXTENDS Integers, Sequences, FiniteSets, TLC

VARIABLES text, allowed, found, spans, xpc,
          raw, corpus, cleaned, cpc,
          posts, comments, mentions, daily_stats, trend_alerts,
          today, next_id, lastOp,
          bpc, args, yf_ok, bsymbols, acc, call_idx, wrap, failed_call,
          pool, file, build_exit,
          kpc, kcfg, feed, tickers, ticker_file, whitelist, redditors, kidx,
          enr, crawl_exit, krun, upstream

xvars == <<text, allowed, found, spans, xpc>>
cvars == <<raw, corpus, cleaned, cpc>>
dvars == <<posts, comments, mentions, daily_stats, trend_alerts,
           today, next_id, lastOp>>
bvars == <<bpc, args, yf_ok, bsymbols, acc, call_idx, wrap, failed_call,
           pool, file, build_exit>>
kvars == <<kpc, kcfg, feed, tickers, ticker_file, whitelist, redditors, kidx,
           enr, crawl_exit, krun, upstream>>
vars == <<text, allowed, found, spans, xpc, raw, corpus, cleaned, cpc,
          posts, comments, mentions, daily_stats, trend_alerts,
          today, next_id, lastOp,
          bpc, args, yf_ok, bsymbols, acc, call_idx, wrap, failed_call,
          pool, file, build_exit,
          kpc, kcfg, feed, tickers, ticker_file, whitelist, redditors, kidx,
          enr, crawl_exit, krun, upstream>>

(***************************************************************************)
(* Bounds of the model.                                                    *)
(***************************************************************************)
\* longest text handed to extract_mentions
MaxTextLen == 5

\* longest text handed to TICKER_RE.findall alone
MaxScanLen == 8

\* longest raw string handed to clean
MaxRawLen == 6

\* most rows of the mentions table
MaxMentions == 3

\* the days (UTC dates) are 1..MaxDay
MaxDay == 2

\* most symbols handed to the worker pool of verify_with_yf
MaxVerify == 3

\* worker threads of the pool of verify_with_yf
PoolWorkers == 2

(***************************************************************************)
(* Characters.                                                             *)
(***************************************************************************)
UPPER == <<"A","B","C","D","E","F","G","H","I","J","K","L","M",
           "N","O","P","Q","R","S","T","U","V","W","X","Y","Z">>

LOWER == <<"a","b","c","d","e","f","g","h","i","j","k","l","m",
           "n","o","p","q","r","s","t","u","v","w","x","y","z">>

DIGITS == {"0","1","2","3","4","5","6","7","8","9"}

Range(s) == {s[i] : i \in DOMAIN s}

UpperSet == Range(UPPER)

LowerSet == Range(LOWER)

\* [A-Z] of TICKER_RE
IsAZ(c) == c \in UpperSet

\* str.isalpha() on one character
IsAlpha(c) == c \in UpperSet \/ c \in LowerSet

\* \w of the re module: letters, digits and the underscore
IsWord(c) == IsAlpha(c) \/ c \in DIGITS \/ c = "_"

\* str.upper() on one character
UpperChar(c) ==
    IF c \in LowerSet
    THEN UPPER[CHOOSE i \in DOMAIN LOWER : LOWER[i] = c]
    ELSE c

\* str.upper()
Upper(s) == [i \in DOMAIN s |-> UpperChar(s[i])]

\* str.lower() on one character
LowerChar(c) ==
    IF c \in UpperSet
    THEN LOWER[CHOOSE i \in DOMAIN UPPER : UPPER[i] = c]
    ELSE c

\* str.lower()
Lower(s) == [i \in DOMAIN s |-> LowerChar(s[i])]

(***************************************************************************)
(* Mention Extractor: TICKER_RE = \b\$?([A-Z]{1,5})\b                      *)
(***************************************************************************)
\* variant of AMBIGUOUS: without its one-letter words
AMBIGUOUS_noSingleLetters == {
    <<"Y","O","U">>, <<"O","N">>, <<"B","E">>, <<"S","O">>, <<"U","P">>,
    <<"A","S">>, <<"O","R">>, <<"C","A","N">>, <<"H","A","S">>,
    <<"N","O","W">>, <<"H","E">>, <<"B","Y">>, <<"A","N">>,
    <<"A","N","D">>, <<"A","M">>, <<"A","N","Y">>, <<"B","E","A","T">>,
    <<"A","G","O">>, <<"I","S">>, <<"W","H","E","R","E">>, <<"N","O","T">>,
    <<"B","R","O">>, <<"S","A","Y">>, <<"P","O","S","T">>,
    <<"P","L","A","Y">>, <<"D","A","Y">>, <<"S","E","E">>,
    <<"N","E","X","T">>, <<"W","E","L","L">>, <<"W","W","W">>,
    <<"W","A","Y">>, <<"H","O","P","E">>, <<"B","U","L","L">>,
    <<"C","A","R","E">>, <<"C","A","S","H">>, <<"C","O","O","K">>,
    <<"C","O","S","T">>, <<"L","U","C","K">>, <<"O","P">>, <<"M","A","N">>,
    <<"M","O","V","E">>, <<"T","O","P">>, <<"J","O","B">>,
    <<"E","L","S","E">>, <<"E","V","E","R">>, <<"F","L","O","W">>,
    <<"L","O","W">>, <<"L","O","T">>, <<"R","E","A","L">>,
    <<"P","U","M","P">>, <<"R","O","O","T">>, <<"H","I","T">>,
    <<"N","I","C","E">>, <<"R","U","N">>, <<"N","E","A","R">>,
    <<"B","I","T">>, <<"T","W","O">>, <<"O","N","E">>, <<"A","D","D">>,
    <<"B","A","S","E">>, <<"H","U","T">>, <<"P","A","Y">>,
    <<"T","R","U","E">>, <<"W","T","F">>, <<"G","A","I","N">>,
    <<"A","R","E","N">>, <<"D","E","E","P">>, <<"C","U","Z">>,
    <<"E","A","T">>, <<"F","A","C","T">>, <<"L","I","N","E">>,
    <<"A","P","P">>, <<"W","O","W">>, <<"A","I","N">>, <<"E","D","I","T">>,
    <<"E","X","P">>, <<"F","A","T">>, <<"P","L","U","S">>,
    <<"B","I","L","L">>, <<"D","R","U","G">>, <<"M","A","X">>,
    <<"N","E","T">>, <<"A","I">>, <<"V","S">>, <<"L","I","N","K">>,
    <<"F","O","R","M">>
}

\* AMBIGUOUS
AMBIGUOUS == {
    <<"Y","O","U">>, <<"O","N">>, <<"T">>, <<"B","E">>, <<"S","O">>,
    <<"U","P">>, <<"A","S">>, <<"O","R">>, <<"C","A","N">>, <<"H","A","S">>,
    <<"N","O","W">>, <<"H","E">>, <<"B","Y">>, <<"A","N">>, <<"A","N","D">>,
    <<"A","M">>, <<"A","N","Y">>, <<"B","E","A","T">>, <<"A","G","O">>,
    <<"I","S">>, <<"W","H","E","R","E">>, <<"N","O","T">>, <<"B","R","O">>,
    <<"S","A","Y">>, <<"P","O","S","T">>, <<"P","L","A","Y">>,
    <<"D","A","Y">>, <<"S","E","E">>, <<"N","E","X","T">>,
    <<"W","E","L","L">>, <<"W","W","W">>, <<"W","A","Y">>,
    <<"H","O","P","E">>, <<"B","U","L","L">>, <<"C","A","R","E">>,
    <<"C","A","S","H">>, <<"C","O","O","K">>, <<"C","O","S","T">>,
    <<"L","U","C","K">>, <<"O","P">>, <<"M","A","N">>, <<"M","O","V","E">>,
    <<"T","O","P">>, <<"J","O","B">>, <<"E","L","S","E">>,
    <<"E","V","E","R">>, <<"F","L","O","W">>, <<"L","O","W">>,
    <<"L","O","T">>, <<"R","E","A","L">>, <<"P","U","M","P">>,
    <<"R","O","O","T">>, <<"H","I","T">>, <<"N","I","C","E">>,
    <<"R","U","N">>, <<"N","E","A","R">>, <<"B","I","T">>, <<"T","W","O">>,
    <<"O","N","E">>, <<"A","D","D">>, <<"B","A","S","E">>, <<"H","U","T">>,
    <<"P","A","Y">>, <<"T","R","U","E">>, <<"W","T","F">>,
    <<"G","A","I","N">>, <<"A","R","E","N">>, <<"D","E","E","P">>,
    <<"C","U","Z">>, <<"E","A","T">>, <<"F","A","C","T">>,
    <<"L","I","N","E">>, <<"A","P","P">>, <<"W","O","W">>, <<"A","I","N">>,
    <<"E","D","I","T">>, <<"E","X","P">>, <<"F","A","T">>,
    <<"P","L","U","S">>, <<"B","I","L","L">>, <<"D","R","U","G">>,
    <<"M","A","X">>, <<"N","E","T">>, <<"A","I">>, <<"K">>, <<"F">>,
    <<"V","S">>, <<"L","I","N","K">>, <<"F","O","R","M">>
}

\* \b at position i: between t[i-1] and t[i] (positions outside t are
\* non-word)
WordBoundary(t, i) ==
    LET before == IF i - 1 \in DOMAIN t THEN IsWord(t[i-1]) ELSE FALSE
        after  == IF i \in DOMAIN t THEN IsWord(t[i]) ELSE FALSE
    IN  before /= after

\* variant of GroupLens: the pattern without its closing \b
GroupLens_noClosingBoundary(t, j) ==
    {k \in 1..5 : /\ j + k - 1 <= Len(t)
                  /\ \A n \in j..(j + k - 1) : IsAZ(t[n])}

\* ([A-Z]{1,5})\b starting at position j: the set of repeat counts k for
\* which the group and the closing \b match
GroupLens(t, j) ==
    {k \in 1..5 : /\ j + k - 1 <= Len(t)
                  /\ \A n \in j..(j + k - 1) : IsAZ(t[n])
                  /\ WordBoundary(t, j + k)}

Max(S) == CHOOSE x \in S : \A y \in S : y <= x

\* One match attempt of TICKER_RE at position i.  Result: <<start of the
\* group, length of the group>>, or <<0, 0>> when the pattern does not match
\* at i.  The optional "$" is tried first (greedy), then skipped; the group
\* is greedy.
MatchAt(t, i) ==
    IF ~WordBoundary(t, i) THEN <<0, 0>>
    ELSE IF t[i] = "$" /\ GroupLens(t, i + 1) /= {}
         THEN <<i + 1, Max(GroupLens(t, i + 1))>>
         ELSE IF GroupLens(t, i) /= {}
              THEN <<i, Max(GroupLens(t, i))>>
              ELSE <<0, 0>>

\* The scan of TICKER_RE.findall(t) from position i: leftmost
\* non-overlapping matches, each as <<start, length>> of group 1
RECURSIVE FindSpansFrom(_, _)
FindSpansFrom(t, i) ==
    IF i > Len(t) THEN <<>>
    ELSE LET m == MatchAt(t, i)
         IN  IF m[2] = 0
             THEN FindSpansFrom(t, i + 1)
             ELSE <<m>> \o FindSpansFrom(t, m[1] + m[2])

\* TICKER_RE.findall(t): the text of group 1 of every match
TICKER_RE_findall(t) ==
    LET sp == FindSpansFrom(t, 1)
    IN  [k \in DOMAIN sp |-> SubSeq(t, sp[k][1], sp[k][1] + sp[k][2] - 1)]

\* variant of extract_mentions: the AMBIGUOUS test left out
extract_mentions_keepAmbiguous(t, allow) ==
    SelectSeq(TICKER_RE_findall(Upper(t)), LAMBDA m : m \in allow)

\* variant of extract_mentions: the text is not upper-cased
extract_mentions_noUpper(t, allow) ==
    SelectSeq(TICKER_RE_findall(t),
              LAMBDA m : m \in allow /\ m \notin AMBIGUOUS)

\* variant of extract_mentions: every symbol reported once, at its first
\* occurrence
extract_mentions_distinct(t, allow) ==
    LET all == SelectSeq(TICKER_RE_findall(Upper(t)),
                         LAMBDA m : m \in allow /\ m \notin AMBIGUOUS)
        first == {k \in DOMAIN all : \A j \in 1..(k - 1) : all[j] /= all[k]}
        F[k \in 0..Len(all)] ==
            IF k = 0 THEN <<>>
            ELSE IF k \in first THEN Append(F[k - 1], all[k]) ELSE F[k - 1]
    IN  F[Len(all)]

\* the list comprehension of extract_mentions
extract_mentions(t, allow) ==
    SelectSeq(TICKER_RE_findall(Upper(t)),
              LAMBDA m : m \in allow /\ m \notin AMBIGUOUS)

(***************************************************************************)
(* Inputs of the extractor                                                 *)
(***************************************************************************)
Seqs(A, n) == UNION {[1..k -> A] : k \in 0..n}

ExtractAlphabet == {"A", "T", "t", "$", " ", "1"}

ScanAlphabet == {"A", "t", "$", " "}

AllowedChoices == {
    {<<"A">>, <<"T">>},
    {<<"A","T">>, <<"T">>, <<"T","A">>},
    {<<"A","A">>, <<"A">>, <<"$","A">>, <<"A","1">>} }

\* values of the variables of the components that are not running
XIdle ==
    /\ text = <<>> /\ allowed = {} /\ found = <<>> /\ spans = <<>>
    /\ xpc = "idle"

CIdle ==
    /\ raw = <<>> /\ corpus = {} /\ cleaned = {} /\ cpc = "idle"

DIdle ==
    /\ posts = {} /\ comments = {} /\ mentions = <<>>
    /\ daily_stats = {} /\ trend_alerts = {}
    /\ today = 1 /\ next_id = [ds |-> 1, ta |-> 1]
    /\ lastOp = "idle"

BIdle ==
    /\ bpc = "idle" /\ args = [markets |-> {}, verify |-> FALSE]
    /\ yf_ok = TRUE /\ bsymbols = {} /\ acc = {} /\ call_idx = 1
    /\ wrap = [call |-> 0, att |-> 0, slept |-> <<>>, res |-> "none"]
    /\ failed_call = 0
    /\ pool = [order |-> <<>>, state |-> <<>>, done |-> <<>>, idx |-> 1,
               good |-> {}]
    /\ file = <<>> /\ build_exit = <<>>

\* the names of the forum users
AuthorNames == {"u1", "u2"}

\* no run of the crawl fixes the answers of the forum for a user
AnyAnswer == [a \in AuthorNames |-> "any"]

KIdle ==
    /\ kpc = "idle"
    /\ kcfg = [post_limit |-> 1, comment_limit |-> 0, alert_th |-> 1,
               enrich_only |-> FALSE, batch |-> 1]
    /\ feed = <<>> /\ tickers = {}
    /\ ticker_file = [exists |-> FALSE, lines |-> <<>>]
    /\ whitelist = {} /\ redditors = {} /\ kidx = 1
    /\ enr = [rows |-> <<>>, i |-> 1, log |-> <<>>, signal |-> <<>>]
    /\ crawl_exit = <<>>
    /\ krun = 1
    /\ upstream = AnyAnswer

InitExtract ==
    /\ text \in Seqs(ExtractAlphabet, MaxTextLen)
    /\ allowed \in AllowedChoices
    /\ found = <<>> /\ spans = <<>>
    /\ xpc = "ready"
    /\ CIdle /\ DIdle /\ BIdle /\ KIdle

\* one call extract_mentions(text, allowed)
Extract ==
    /\ xpc = "ready"
    /\ found' = extract_mentions(text, allowed)
    /\ xpc' = "done"
    /\ UNCHANGED <<text, allowed, spans>>
    /\ UNCHANGED cvars /\ UNCHANGED dvars /\ UNCHANGED bvars
    /\ UNCHANGED kvars

NextExtract == Extract

SpecExtract == InitExtract /\ [][NextExtract]_vars

InitScan ==
    /\ text \in Seqs(ScanAlphabet, MaxScanLen)
    /\ allowed = {}
    /\ found = <<>> /\ spans = <<>>
    /\ xpc = "ready"
    /\ CIdle /\ DIdle /\ BIdle /\ KIdle

\* one call TICKER_RE.findall(text), as in test_regex.py
Scan ==
    /\ xpc = "ready"
    /\ spans' = FindSpansFrom(text, 1)
    /\ found' = TICKER_RE_findall(text)
    /\ xpc' = "scanned"
    /\ UNCHANGED <<text, allowed>>
    /\ UNCHANGED cvars /\ UNCHANGED dvars /\ UNCHANGED bvars
    /\ UNCHANGED kvars

NextScan == Scan

SpecScan == InitScan /\ [][NextScan]_vars

TokenAlphabet == {"F", "O", "k", "/", "$", " "}

\* whitelists as the Normalizer accepts them: the one-letter keep-list and
\* share-class symbols
TokenWhitelists == {
    {<<"F">>, <<"T">>, <<"O">>, <<"K">>},
    {<<"F">>, <<"T">>, <<"O">>, <<"K">>, <<"F","/","K">>, <<"O","/","F">>},
    {<<"O","/","K">>, <<"K","O">>, <<"O","F","F">>} }

InitTokens ==
    /\ text \in Seqs(TokenAlphabet, MaxTextLen)
    /\ allowed \in TokenWhitelists
    /\ found = <<>> /\ spans = <<>>
    /\ xpc = "ready"
    /\ CIdle /\ DIdle /\ BIdle /\ KIdle

SpecTokens == InitTokens /\ [][NextExtract]_vars

(***************************************************************************)
(* Symbol Normalizer: clean() of build_ticker_list.py                      *)
(***************************************************************************)
KEEP_SINGLE == {<<"F">>, <<"T">>, <<"O">>, <<"K">>}

MANUAL_STOP == {
    <<"A","L","L">>, <<"A","R","E">>, <<"B","U","Y">>, <<"C","A","L","L">>,
    <<"C","E","O">>, <<"C","F","O">>, <<"M","O","O","N">>,
    <<"O","P","E","N">>, <<"P","L","A","N">>, <<"S","E","L","L">>,
    <<"U","S","A">>, <<"N","E","W">>, <<"G","O","O","D">>,
    <<"L","O","V","E">>, <<"Y","O","L","O">>, <<"D","D">>, <<"B","I","G">>,
    <<"D","A","Y">>, <<"O","U","T">>
}

IsSpace(c) == c \in {" "}

\* str.strip()
RECURSIVE Strip(_)
Strip(s) ==
    IF s = <<>> THEN s
    ELSE IF IsSpace(Head(s)) THEN Strip(Tail(s))
    ELSE IF IsSpace(s[Len(s)]) THEN Strip(SubSeq(s, 1, Len(s) - 1))
    ELSE s

\* str.replace(".", "/")
ReplaceDot(s) == [i \in DOMAIN s |-> IF s[i] = "." THEN "/" ELSE s[i]]

\* variant of Normalize: without strip()
Normalize_noStrip(symbol) == ReplaceDot(Upper(symbol))

\* symbol.strip().upper().replace(".", "/")
Normalize(symbol) == ReplaceDot(Upper(Strip(symbol)))

\* "/" in sym
HasSlash(sym) == \E i \in DOMAIN sym : sym[i] = "/"

\* sym.partition("/") of a string that holds a "/": <<left, right>>
Partition(sym) ==
    LET i == CHOOSE k \in DOMAIN sym :
                 sym[k] = "/" /\ \A j \in 1..(k - 1) : sym[j] /= "/"
    IN  <<SubSeq(sym, 1, i - 1), SubSeq(sym, i + 1, Len(sym))>>

\* str.isalpha()
StrIsAlpha(sym) == sym /= <<>> /\ \A i \in DOMAIN sym : IsAlpha(sym[i])

\* _looks_like_word: zipf_frequency(sym.lower(), "en") > 4.0; corp is the
\* set of lower-case strings whose frequency score exceeds 4.0
looks_like_word(sym, corp) == Lower(sym) \in corp

\* variant of Accepts: no special case for one-letter symbols
Accepts_noKeepSingle(sym, corp) ==
    IF HasSlash(sym)
    THEN /\ Len(Partition(sym)[1]) \in 1..4
         /\ Len(Partition(sym)[2]) = 1
         /\ ~(sym \in MANUAL_STOP \/ looks_like_word(sym, corp))
    ELSE /\ Len(sym) \in 2..5
         /\ StrIsAlpha(sym)
         /\ ~(sym \in MANUAL_STOP \/ looks_like_word(sym, corp))

\* variant of Accepts: the manual stop-list is not consulted
Accepts_noManualStop(sym, corp) ==
    IF Len(sym) = 1 THEN sym \in KEEP_SINGLE
    ELSE IF HasSlash(sym)
    THEN /\ Len(Partition(sym)[1]) \in 1..4
         /\ Len(Partition(sym)[2]) = 1
         /\ ~looks_like_word(sym, corp)
    ELSE /\ Len(sym) \in 2..5
         /\ StrIsAlpha(sym)
         /\ ~looks_like_word(sym, corp)

\* the body of the loop of clean for one normalized symbol: TRUE when the
\* loop reaches out.add(sym)
Accepts(sym, corp) ==
    IF Len(sym) = 1 THEN sym \in KEEP_SINGLE
    ELSE IF HasSlash(sym)
    THEN /\ Len(Partition(sym)[1]) \in 1..4
         /\ Len(Partition(sym)[2]) = 1
         /\ (StrIsAlpha(sym) \/ HasSlash(sym))
         /\ ~(sym \in MANUAL_STOP \/ looks_like_word(sym, corp))
    ELSE /\ Len(sym) \in 2..5
         /\ (StrIsAlpha(sym) \/ HasSlash(sym))
         /\ ~(sym \in MANUAL_STOP \/ looks_like_word(sym, corp))

\* clean(raw)
clean(R, corp) ==
    {Normalize(symbol) : symbol \in {r \in R : Accepts(Normalize(r), corp)}}

CleanAlphabet == {"F", "d", ".", "/", " ", "1"}

\* frequency corpora: the strings that score above 4.0
CorpusChoices == {
    {},
    {<<"f">>, <<"d","f">>, <<"f","d","f">>},
    {<<"f","/","d">>, <<"d","d">>} }

InitClean ==
    /\ raw \in {{r} : r \in Seqs(CleanAlphabet, MaxRawLen)}
    /\ corpus \in CorpusChoices
    /\ cleaned = {}
    /\ cpc = "ready"
    /\ XIdle /\ DIdle /\ BIdle /\ KIdle

\* one call clean(raw)
Clean ==
    /\ cpc = "ready"
    /\ cleaned' = clean(raw, corpus)
    /\ cpc' = "done"
    /\ UNCHANGED <<raw, corpus>>
    /\ UNCHANGED xvars /\ UNCHANGED dvars /\ UNCHANGED bvars
    /\ UNCHANGED kvars

NextClean == Clean

SpecClean == InitClean /\ [][NextClean]_vars

(***************************************************************************)
(* Relational store and Aggregator                                         *)
(***************************************************************************)
\* the two demo tickers of ensure_sample_tickers
AAPL == <<"A","A","P","L">>

TSLA == <<"T","S","L","A">>

GME == <<"G","M","E">>

\* the symbols the store operations insert mention rows for
Symbols == <<AAPL, TSLA>>

\* the symbols that occur in mention rows, in the order of GROUP BY m.symbol
GroupSymbols == <<AAPL, GME, TSLA>>

\* SQL NULL / Python None
NULL == "NULL"

PostIds == {"p1"}

CommentIds == {"c1"}

\* author names; NULL is a deleted author
Authors == {"u1", "u2", NULL}

\* values of --threshold
Thresholds == {1, 2}

\* LEFT JOIN posts AS p ON p.id = m.post_id, column p.author_id
PostAuthor(m) ==
    IF \E p \in posts : p.id = m.post_id
    THEN (CHOOSE p \in posts : p.id = m.post_id).author_id
    ELSE NULL

\* LEFT JOIN comments AS c ON c.id = m.comment_id, column c.author_id
CommentAuthor(m) ==
    IF \E c \in comments : c.id = m.comment_id
    THEN (CHOOSE c \in comments : c.id = m.comment_id).author_id
    ELSE NULL

\* COALESCE(p.author_id, c.author_id)
CoalesceAuthor(m) ==
    IF PostAuthor(m) /= NULL THEN PostAuthor(m) ELSE CommentAuthor(m)

\* variant of TodayRows: no WHERE clause, the rows of all days are counted
TodayRows_allDays(sym, day) ==
    {i \in DOMAIN mentions : mentions[i].symbol = sym}

\* the rows of one group: WHERE DATE(m.created_at) = DATE('now')
\* GROUP BY m.symbol
TodayRows(sym, day) ==
    {i \in DOMAIN mentions :
        mentions[i].symbol = sym /\ mentions[i].created_at = day}

\* the SELECT list of update_daily_stats for one group
GroupStat(sym, day) ==
    LET g == TodayRows(sym, day)
    IN  [symbol           |-> sym,
         date             |-> day,
         mention_count    |-> Cardinality(g),
         post_mentions    |->
             Cardinality({i \in g : mentions[i].post_id /= NULL}),
         comment_mentions |->
             Cardinality({i \in g : mentions[i].comment_id /= NULL}),
         unique_authors   |->
             Cardinality({CoalesceAuthor(mentions[i]) : i \in g} \ {NULL})]

\* variant of UpsertDailyStat: on conflict the new counts are added to the
\* stored ones
UpsertDailyStat_accumulate(st, row) ==
    IF \E r \in st.rows : r.symbol = row.symbol /\ r.date = row.date
    THEN LET old == CHOOSE r \in st.rows :
                        r.symbol = row.symbol /\ r.date = row.date
         IN  [st EXCEPT !.rows = (st.rows \ {old}) \cup
                 {[old EXCEPT
                     !.mention_count    = old.mention_count
                                          + row.mention_count,
                     !.post_mentions    = old.post_mentions
                                          + row.post_mentions,
                     !.comment_mentions = old.comment_mentions
                                          + row.comment_mentions,
                     !.unique_authors   = old.unique_authors
                                          + row.unique_authors]}]
    ELSE [rows |-> st.rows \cup
                     {[id |-> st.next, symbol |-> row.symbol,
                       date |-> row.date,
                       mention_count    |-> row.mention_count,
                       post_mentions    |-> row.post_mentions,
                       comment_mentions |-> row.comment_mentions,
                       unique_authors   |-> row.unique_authors]},
          next |-> st.next + 1]

\* INSERT INTO daily_stats ... ON CONFLICT(symbol,date) DO UPDATE SET ...
\* for one row; st = [rows, next] is the table and its next rowid
UpsertDailyStat(st, row) ==
    IF \E r \in st.rows : r.symbol = row.symbol /\ r.date = row.date
    THEN LET old == CHOOSE r \in st.rows :
                        r.symbol = row.symbol /\ r.date = row.date
         IN  [st EXCEPT !.rows = (st.rows \ {old}) \cup
                 {[old EXCEPT
                     !.mention_count    = row.mention_count,
                     !.post_mentions    = row.post_mentions,
                     !.comment_mentions = row.comment_mentions,
                     !.unique_authors   = row.unique_authors]}]
    ELSE [rows |-> st.rows \cup
                     {[id |-> st.next, symbol |-> row.symbol,
                       date |-> row.date,
                       mention_count    |-> row.mention_count,
                       post_mentions    |-> row.post_mentions,
                       comment_mentions |-> row.comment_mentions,
                       unique_authors   |-> row.unique_authors]},
          next |-> st.next + 1]

\* the INSERT ... SELECT of update_daily_stats: one upsert per group, the
\* groups in the order of GroupSymbols
RECURSIVE DailyStatsFrom(_, _, _)
DailyStatsFrom(st, k, day) ==
    IF k > Len(GroupSymbols) THEN st
    ELSE IF TodayRows(GroupSymbols[k], day) = {}
         THEN DailyStatsFrom(st, k + 1, day)
         ELSE DailyStatsFrom(UpsertDailyStat(st,
                                             GroupStat(GroupSymbols[k], day)),
                             k + 1, day)

\* whether INSERT OR IGNORE INTO trend_alerts ignores the row: an alert of
\* that type exists for the symbol on that day
TrendAlertExists(tbl, sym, type, day) ==
    \E r \in tbl :
        r.symbol = sym /\ r.alert_type = type /\ r.created_at = day

\* variant of InsertAlertOrIgnore: INSERT OR REPLACE
InsertAlertOrIgnore_replace(st, d, threshold, day) ==
    [rows |-> {r \in st.rows :
                   ~(r.symbol = d.symbol /\ r.alert_type = "mention_spike"
                     /\ r.created_at = day)}
              \cup {[id |-> st.next, symbol |-> d.symbol,
                     alert_type |-> "mention_spike",
                     threshold |-> threshold,
                     current_value |-> d.mention_count,
                     created_at |-> day]},
     next |-> st.next + 1]

\* INSERT OR IGNORE INTO trend_alerts(...) for the daily_stats row d
InsertAlertOrIgnore(st, d, threshold, day) ==
    IF TrendAlertExists(st.rows, d.symbol, "mention_spike", day)
    THEN st
    ELSE [rows |-> st.rows \cup
                     {[id |-> st.next, symbol |-> d.symbol,
                       alert_type |-> "mention_spike",
                       threshold |-> threshold,
                       current_value |-> d.mention_count,
                       created_at |-> day]},
          next |-> st.next + 1]

\* the loop of update_trend_alerts over the selected daily_stats rows, in
\* rowid order; sel is the set of rows still to visit
RECURSIVE TrendAlertsFrom(_, _, _, _)
TrendAlertsFrom(st, sel, threshold, day) ==
    IF sel = {} THEN st
    ELSE LET d == CHOOSE x \in sel : \A y \in sel : x.id <= y.id
         IN  TrendAlertsFrom(InsertAlertOrIgnore(st, d, threshold, day),
                             sel \ {d}, threshold, day)

\* the operation that ran last; a run of update_daily_stats that directly
\* follows another one is marked as a rerun
Did(op) ==
    lastOp' = IF op = "update_daily_stats"
                 /\ lastOp \in {"update_daily_stats", "rerun_daily_stats"}
              THEN "rerun_daily_stats"
              ELSE op

InitDb ==
    /\ posts = {} /\ comments = {} /\ mentions = <<>>
    /\ daily_stats = {} /\ trend_alerts = {}
    /\ today = 1
    /\ next_id = [ds |-> 1, ta |-> 1]
    /\ lastOp = "init"
    /\ XIdle /\ CIdle /\ BIdle /\ KIdle

\* insert_post: INSERT OR IGNORE INTO posts
InsertPost(pid, author) ==
    /\ posts' = IF \E p \in posts : p.id = pid THEN posts
                ELSE posts \cup {[id |-> pid, author_id |-> author]}
    /\ Did("insert")
    /\ UNCHANGED <<comments, mentions, daily_stats, trend_alerts, today,
                   next_id>>
    /\ UNCHANGED xvars /\ UNCHANGED cvars /\ UNCHANGED bvars
    /\ UNCHANGED kvars

\* insert_comment: INSERT OR IGNORE INTO comments, for a comment of the
\* post pid that insert_post has stored
InsertComment(cid, pid, author) ==
    /\ \E p \in posts : p.id = pid
    /\ comments' = IF \E c \in comments : c.id = cid THEN comments
                   ELSE comments \cup {[id |-> cid, post_id |-> pid,
                                        author_id |-> author]}
    /\ Did("insert")
    /\ UNCHANGED <<posts, mentions, daily_stats, trend_alerts, today,
                   next_id>>
    /\ UNCHANGED xvars /\ UNCHANGED cvars /\ UNCHANGED bvars
    /\ UNCHANGED kvars

\* insert_mention as crawl calls it for a token of a post:
\* insert_mention(cur, m, post.id, None, "post", ...)
InsertPostMention(sym, pid) ==
    /\ Len(mentions) < MaxMentions
    /\ \E p \in posts : p.id = pid
    /\ mentions' = Append(mentions,
                          [symbol |-> sym, post_id |-> pid,
                           comment_id |-> NULL, source |-> "post",
                           created_at |-> today])
    /\ Did("insert")
    /\ UNCHANGED <<posts, comments, daily_stats, trend_alerts, today,
                   next_id>>
    /\ UNCHANGED xvars /\ UNCHANGED cvars /\ UNCHANGED bvars
    /\ UNCHANGED kvars

\* insert_mention as crawl calls it for a token of a comment:
\* insert_mention(cur, m, None, cm.id, "comment", ...)
InsertCommentMention(sym, cid) ==
    /\ Len(mentions) < MaxMentions
    /\ \E c \in comments : c.id = cid
    /\ mentions' = Append(mentions,
                          [symbol |-> sym, post_id |-> NULL,
                           comment_id |-> cid, source |-> "comment",
                           created_at |-> today])
    /\ Did("insert")
    /\ UNCHANGED <<posts, comments, daily_stats, trend_alerts, today,
                   next_id>>
    /\ UNCHANGED xvars /\ UNCHANGED cvars /\ UNCHANGED bvars
    /\ UNCHANGED kvars

\* update_daily_stats(conn)
UpdateDailyStats ==
    /\ LET st == DailyStatsFrom([rows |-> daily_stats, next |-> next_id.ds],
                                1, today)
       IN  /\ daily_stats' = st.rows
           /\ next_id' = [next_id EXCEPT !.ds = st.next]
    /\ Did("update_daily_stats")
    /\ UNCHANGED <<posts, comments, mentions, trend_alerts, today>>
    /\ UNCHANGED xvars /\ UNCHANGED cvars /\ UNCHANGED bvars
    /\ UNCHANGED kvars

\* variant of SelectSpikes: mention_count > ? instead of >= ?
SelectSpikes_strictlyAbove(threshold, day) ==
    {d \in daily_stats : d.date = day /\ d.mention_count > threshold}

\* SELECT symbol, mention_count FROM daily_stats
\* WHERE date=DATE('now') AND mention_count>=?
SelectSpikes(threshold, day) ==
    {d \in daily_stats : d.date = day /\ d.mention_count >= threshold}

\* update_trend_alerts(conn, threshold)
UpdateTrendAlerts(threshold) ==
    /\ LET sel == SelectSpikes(threshold, today)
           st  == TrendAlertsFrom([rows |-> trend_alerts,
                                   next |-> next_id.ta],
                                  sel, threshold, today)
       IN  /\ trend_alerts' = st.rows
           /\ next_id' = [next_id EXCEPT !.ta = st.next]
    /\ Did("update_trend_alerts")
    /\ UNCHANGED <<posts, comments, mentions, daily_stats, today>>
    /\ UNCHANGED xvars /\ UNCHANGED cvars /\ UNCHANGED bvars
    /\ UNCHANGED kvars

\* the UTC date changes
NextDay ==
    /\ today < MaxDay
    /\ today' = today + 1
    /\ Did("next_day")
    /\ UNCHANGED <<posts, comments, mentions, daily_stats, trend_alerts,
                   next_id>>
    /\ UNCHANGED xvars /\ UNCHANGED cvars /\ UNCHANGED bvars
    /\ UNCHANGED kvars

Next ==
    \/ \E pid \in PostIds, a \in Authors : InsertPost(pid, a)
    \/ \E cid \in CommentIds, pid \in PostIds, a \in Authors :
           InsertComment(cid, pid, a)
    \/ \E k \in DOMAIN Symbols, pid \in PostIds :
           InsertPostMention(Symbols[k], pid)
    \/ \E k \in DOMAIN Symbols, cid \in CommentIds :
           InsertCommentMention(Symbols[k], cid)
    \/ UpdateDailyStats
    \/ \E th \in Thresholds : UpdateTrendAlerts(th)
    \/ NextDay

Spec == InitDb /\ [][Next]_vars

(***************************************************************************)
(* Whitelist Builder: main() of build_ticker_list.py                       *)
(***************************************************************************)
\* retry(max_tries: int = 3, pause: float = 3.0)
max_tries == 3

pause == 3

\* variant of Backoff: the same pause after every failed attempt
Backoff_constant(att_no) == pause

\* time.sleep(pause * att)
Backoff(att_no) == pause * att_no

\* The HTTP calls of the fetch functions in the order main() makes them.
\* kind "fn": the whole fetch function is wrapped by @retry (fetch_nasdaq,
\* fetch_crypto); kind "html": only _get_html is wrapped and the page is
\* parsed afterwards (fetch_sp500, fetch_germany, fetch_china_adr).
\* last: the fetch function returns after this call.
Calls == <<
    [id |-> 1, market |-> "us", fn |-> "fetch_nasdaq", kind |-> "fn",
     last |-> TRUE],
    [id |-> 2, market |-> "us", fn |-> "fetch_sp500", kind |-> "html",
     last |-> TRUE],
    [id |-> 3, market |-> "de", fn |-> "fetch_germany", kind |-> "html",
     last |-> FALSE],
    [id |-> 4, market |-> "de", fn |-> "fetch_germany", kind |-> "html",
     last |-> FALSE],
    [id |-> 5, market |-> "de", fn |-> "fetch_germany", kind |-> "html",
     last |-> FALSE],
    [id |-> 6, market |-> "de", fn |-> "fetch_germany", kind |-> "html",
     last |-> TRUE],
    [id |-> 7, market |-> "cn", fn |-> "fetch_china_adr", kind |-> "html",
     last |-> FALSE],
    [id |-> 8, market |-> "cn", fn |-> "fetch_china_adr", kind |-> "html",
     last |-> TRUE],
    [id |-> 9, market |-> "crypto", fn |-> "fetch_crypto", kind |-> "fn",
     last |-> TRUE] >>

\* the symbols the sources serve
CallData == <<
    {<<"F">>, <<"D","D">>, <<"A","B">>},
    {<<"B",".","B">>, <<"A","B">>},
    {<<"S","A","P",".","D","E">>},
    {<<"s","a","p">>},
    {},
    {},
    {<<"J","D">>},
    {},
    {<<"b","t","c">>, <<"x">>, <<"a","1">>} >>

\* the calls main() makes for the wanted markets
Plan(markets) == SelectSeq(Calls, LAMBDA c : c.market \in markets)

\* str.replace(".DE", "")
RECURSIVE RemoveDE(_)
RemoveDE(str) ==
    IF str = <<>> THEN str
    ELSE IF Len(str) >= 3 /\ SubSeq(str, 1, 3) = <<".","D","E">>
         THEN RemoveDE(SubSeq(str, 4, Len(str)))
         ELSE <<Head(str)>> \o RemoveDE(Tail(str))

\* what one successful call contributes to the set the fetch function builds
PageSymbols(c) ==
    IF c.fn = "fetch_crypto"
    THEN {Upper(x) : x \in {y \in CallData[c.id] :
                               StrIsAlpha(y) /\ Len(y) \in 2..5}}
    ELSE {Upper(x) : x \in CallData[c.id]}

\* the return value of the fetch function, from the set out it has built
FetchResult(c, out) ==
    IF c.fn = "fetch_germany" THEN {RemoveDE(x) : x \in out} ELSE out

\* code points of the characters that occur in symbols
Ascii == <<" ", "$", ".", "/", "0", "1", "2", "3", "4", "5", "6", "7", "8",
           "9", "A", "B", "C", "D", "E", "F", "G", "H", "I", "J", "K", "L",
           "M", "N", "O", "P", "Q", "R", "S", "T", "U", "V", "W", "X", "Y",
           "Z", "_", "a", "b", "c", "d", "e", "f", "g", "h", "i", "j", "k",
           "l", "m", "n", "o", "p", "q", "r", "s", "t", "u", "v", "w", "x",
           "y", "z">>

Ord(c) == CHOOSE i \in DOMAIN Ascii : Ascii[i] = c

\* a < b for Python strings
RECURSIVE StrLess(_, _)
StrLess(a, b) ==
    IF b = <<>> THEN FALSE
    ELSE IF a = <<>> THEN TRUE
    ELSE IF Head(a) = Head(b) THEN StrLess(Tail(a), Tail(b))
    ELSE Ord(Head(a)) < Ord(Head(b))

\* variant of Sorted: the symbols in descending order
RECURSIVE Sorted_descending(_)
Sorted_descending(S) ==
    IF S = {} THEN <<>>
    ELSE LET m == CHOOSE x \in S : \A y \in S \ {x} : StrLess(y, x)
         IN  <<m>> \o Sorted_descending(S \ {m})

\* sorted(symbols)
RECURSIVE Sorted(_)
Sorted(S) ==
    IF S = {} THEN <<>>
    ELSE LET m == CHOOSE x \in S : \A y \in S \ {x} : StrLess(x, y)
         IN  <<m>> \o Sorted(S \ {m})

Header == <<"s","y","m","b","o","l">>

\* the rows write_csv writes
CsvRows(symbols) == <<Header>> \o Sorted(symbols)

\* variant of VerifySkipResult: nothing is returned
VerifySkipResult_empty(symbols) == {}

\* verify_with_yf when yf is None: return symbols
VerifySkipResult(symbols) == symbols

\* variant of ResultOf: the k-th result is that of the k-th lookup to finish
ResultOf_completionOrder(pl, k) ==
    IF k <= Len(pl.done) THEN pl.state[pl.done[k]] ELSE "running"

\* the k-th item of ex.map(_ok, symbols): the result of the lookup of the
\* k-th symbol
ResultOf(pl, k) == pl.state[pl.order[k]]

\* the exit status of sys.exit(arg): None gives 0, an integer itself, any
\* other object (printed to stderr) gives 1
SysExit(arg) ==
    IF arg.kind = "none" THEN 0
    ELSE IF arg.kind = "int" THEN arg.val
    ELSE 1

Perms(S) ==
    {q \in [1..Cardinality(S) -> S] : \A i, j \in DOMAIN q :
                                          q[i] = q[j] => i = j}

\* --markets values
WantedChoices == {{}, {"us"}, {"de", "cn"}, {"crypto"}, {"us", "de"},
                  {"us", "de", "cn"}}

BuildCorpora == {{}, {<<"j","d">>}}

BRunning == bpc \in {"fetch", "verify", "verifying", "write"}

InitBuild ==
    /\ args \in [markets : WantedChoices, verify : BOOLEAN]
    /\ yf_ok \in BOOLEAN
    /\ corpus \in BuildCorpora
    /\ bpc = "fetch"
    /\ bsymbols = {} /\ acc = {} /\ call_idx = 1
    /\ wrap = [call |-> 0, att |-> 0, slept |-> <<>>, res |-> "none"]
    /\ failed_call = 0
    /\ pool = [order |-> <<>>, state |-> <<>>, done |-> <<>>, idx |-> 1,
               good |-> {}]
    /\ file = <<>> /\ build_exit = <<>>
    /\ raw = <<>> /\ cleaned = {} /\ cpc = "idle"
    /\ XIdle /\ DIdle /\ KIdle

\* the wrapper state at the next attempt: a new wrapper call starts with
\* att = 1
WrapBase(c) ==
    IF wrap.res = "running" THEN wrap
    ELSE [call |-> c.id, att |-> 0, slept |-> <<>>, res |-> "running"]

\* an attempt of the current call succeeds (and, for a page, the page is
\* parsed): the wrapper returns, the fetch function goes on
FetchReturns ==
    /\ bpc = "fetch"
    /\ call_idx <= Len(Plan(args.markets))
    /\ LET c == Plan(args.markets)[call_idx]
           b == WrapBase(c)
       IN  /\ wrap' = [b EXCEPT !.att = b.att + 1, !.res = "returned"]
           /\ IF c.last
              THEN /\ bsymbols' = bsymbols
                                  \cup FetchResult(c, acc \cup PageSymbols(c))
                   /\ acc' = {}
              ELSE /\ acc' = acc \cup PageSymbols(c)
                   /\ bsymbols' = bsymbols
    /\ call_idx' = call_idx + 1
    /\ UNCHANGED <<bpc, args, yf_ok, failed_call, pool, file, build_exit>>
    /\ UNCHANGED xvars /\ UNCHANGED cvars /\ UNCHANGED dvars
    /\ UNCHANGED kvars

\* an attempt of the current call raises: the wrapper sleeps and tries again,
\* or re-raises after the last attempt, and the exception leaves main()
FetchAttemptFails ==
    /\ bpc = "fetch"
    /\ call_idx <= Len(Plan(args.markets))
    /\ LET c == Plan(args.markets)[call_idx]
           b == WrapBase(c)
           n == b.att + 1
       IN  IF n = max_tries
           THEN /\ wrap' = [b EXCEPT !.att = n, !.res = "raised"]
                /\ failed_call' = c.id
                /\ bpc' = "failed"
                /\ build_exit' = <<SysExit([kind |-> "int", val |-> 1])>>
           ELSE /\ wrap' = [b EXCEPT !.att = n,
                                     !.slept = Append(b.slept, Backoff(n))]
                /\ UNCHANGED <<failed_call, bpc, build_exit>>
    /\ UNCHANGED <<args, yf_ok, bsymbols, acc, call_idx, pool, file>>
    /\ UNCHANGED xvars /\ UNCHANGED cvars /\ UNCHANGED dvars
    /\ UNCHANGED kvars

\* _get_html returns but pd.read_html (or the column access) raises: not
\* retried, the exception leaves main()
FetchParseFails ==
    /\ bpc = "fetch"
    /\ call_idx <= Len(Plan(args.markets))
    /\ LET c == Plan(args.markets)[call_idx]
           b == WrapBase(c)
       IN  /\ c.kind = "html"
           /\ wrap' = [b EXCEPT !.att = b.att + 1, !.res = "returned"]
           /\ failed_call' = c.id
    /\ bpc' = "failed"
    /\ build_exit' = <<SysExit([kind |-> "int", val |-> 1])>>
    /\ UNCHANGED <<args, yf_ok, bsymbols, acc, call_idx, pool, file>>
    /\ UNCHANGED xvars /\ UNCHANGED cvars /\ UNCHANGED dvars
    /\ UNCHANGED kvars

\* symbols = clean(symbols)
BuildClean ==
    /\ bpc = "fetch"
    /\ call_idx > Len(Plan(args.markets))
    /\ bsymbols' = clean(bsymbols, corpus)
    /\ bpc' = IF args.verify THEN "verify" ELSE "write"
    /\ UNCHANGED <<args, yf_ok, acc, call_idx, wrap, failed_call, pool, file,
                   build_exit>>
    /\ UNCHANGED xvars /\ UNCHANGED cvars /\ UNCHANGED dvars
    /\ UNCHANGED kvars

\* verify_with_yf with yf = None
VerifySkip ==
    /\ bpc = "verify"
    /\ ~yf_ok
    /\ bsymbols' = VerifySkipResult(bsymbols)
    /\ bpc' = "write"
    /\ UNCHANGED <<args, yf_ok, acc, call_idx, wrap, failed_call, pool, file,
                   build_exit>>
    /\ UNCHANGED xvars /\ UNCHANGED cvars /\ UNCHANGED dvars
    /\ UNCHANGED kvars

\* verify_with_yf: ex.map(_ok, symbols) submits one lookup per symbol, in
\* the iteration order of the set
VerifyStart ==
    /\ bpc = "verify"
    /\ yf_ok
    /\ Cardinality(bsymbols) <= MaxVerify
    /\ \E order \in Perms(bsymbols) :
          pool' = [order |-> order,
                   state |-> [sym \in bsymbols |-> "queued"],
                   done  |-> <<>>,
                   idx   |-> 1,
                   good  |-> {}]
    /\ bpc' = "verifying"
    /\ UNCHANGED <<args, yf_ok, bsymbols, acc, call_idx, wrap, failed_call,
                   file, build_exit>>
    /\ UNCHANGED xvars /\ UNCHANGED cvars /\ UNCHANGED dvars
    /\ UNCHANGED kvars

\* a free worker takes the next queued lookup
LookupStart ==
    /\ bpc = "verifying"
    /\ Cardinality({sym \in DOMAIN pool.state :
                       pool.state[sym] = "running"}) < PoolWorkers
    /\ \E k \in DOMAIN pool.order :
          /\ pool.state[pool.order[k]] = "queued"
          /\ \A j \in 1..(k - 1) : pool.state[pool.order[j]] /= "queued"
          /\ pool' = [pool EXCEPT !.state[pool.order[k]] = "running"]
    /\ UNCHANGED <<bpc, args, yf_ok, bsymbols, acc, call_idx, wrap,
                   failed_call, file, build_exit>>
    /\ UNCHANGED xvars /\ UNCHANGED cvars /\ UNCHANGED dvars
    /\ UNCHANGED kvars

\* _ok(s) ends in a worker: fast_info is truthy, falsy, or the lookup raised
\* (caught, False)
LookupFinish(sym, outcome) ==
    /\ bpc = "verifying"
    /\ sym \in DOMAIN pool.state
    /\ pool.state[sym] = "running"
    /\ pool' = [pool EXCEPT !.state[sym] = outcome,
                            !.done = Append(pool.done, sym)]
    /\ UNCHANGED <<bpc, args, yf_ok, bsymbols, acc, call_idx, wrap,
                   failed_call, file, build_exit>>
    /\ UNCHANGED xvars /\ UNCHANGED cvars /\ UNCHANGED dvars
    /\ UNCHANGED kvars

\* one iteration of `for sym, ok in zip(symbols, ex.map(_ok, symbols))`
Collect ==
    /\ bpc = "verifying"
    /\ pool.idx <= Len(pool.order)
    /\ ResultOf(pool, pool.idx) \in {"truthy", "falsy", "raised"}
    /\ pool' = [pool EXCEPT
                  !.idx = pool.idx + 1,
                  !.good = IF ResultOf(pool, pool.idx) = "truthy"
                           THEN pool.good \cup {pool.order[pool.idx]}
                           ELSE pool.good]
    /\ UNCHANGED <<bpc, args, yf_ok, bsymbols, acc, call_idx, wrap,
                   failed_call, file, build_exit>>
    /\ UNCHANGED xvars /\ UNCHANGED cvars /\ UNCHANGED dvars
    /\ UNCHANGED kvars

\* the loop is over, the executor is shut down: return good
VerifyReturn ==
    /\ bpc = "verifying"
    /\ pool.idx > Len(pool.order)
    /\ \A sym \in DOMAIN pool.state :
          pool.state[sym] \in {"truthy", "falsy", "raised"}
    /\ bsymbols' = pool.good
    /\ bpc' = "write"
    /\ UNCHANGED <<args, yf_ok, acc, call_idx, wrap, failed_call, pool, file,
                   build_exit>>
    /\ UNCHANGED xvars /\ UNCHANGED cvars /\ UNCHANGED dvars
    /\ UNCHANGED kvars

\* write_csv(symbols, OUT_FILE); main() returns and the process ends
BuildWrite ==
    /\ bpc = "write"
    /\ file' = CsvRows(bsymbols)
    /\ bpc' = "done"
    /\ build_exit' = <<SysExit([kind |-> "none", val |-> 0])>>
    /\ UNCHANGED <<args, yf_ok, bsymbols, acc, call_idx, wrap, failed_call,
                   pool>>
    /\ UNCHANGED xvars /\ UNCHANGED cvars /\ UNCHANGED dvars
    /\ UNCHANGED kvars

\* KeyboardInterrupt in main(): sys.exit("Abbruch durch Benutzer")
BuildInterrupt ==
    /\ BRunning
    /\ bpc' = "interrupted"
    /\ build_exit' = <<SysExit([kind |-> "str", val |-> 0])>>
    /\ UNCHANGED <<args, yf_ok, bsymbols, acc, call_idx, wrap, failed_call,
                   pool, file>>
    /\ UNCHANGED xvars /\ UNCHANGED cvars /\ UNCHANGED dvars
    /\ UNCHANGED kvars

NextBuild ==
    \/ FetchReturns
    \/ FetchAttemptFails
    \/ FetchParseFails
    \/ BuildClean
    \/ VerifySkip
    \/ VerifyStart
    \/ LookupStart
    \/ \E sym \in DOMAIN pool.state,
          outcome \in {"truthy", "falsy", "raised"} :
           LookupFinish(sym, outcome)
    \/ Collect
    \/ VerifyReturn
    \/ BuildWrite
    \/ BuildInterrupt

SpecBuild == InitBuild /\ [][NextBuild]_vars

(***************************************************************************)
(* Crawl: RedditStockCrawler.crawl and main() of reddit_crawler_stock.py    *)
(* (the trigger on mentions belongs to schema.sql and is not modelled)      *)
(***************************************************************************)
MaxPostLimit == 2

MaxCommentLimit == 2

MAX_AUTHORS_PER_MIN == 50

\* the posts sr.new() serves, with their comment forests flattened as
\* post.comments.list() returns them
FeedPost1 ==
    [id |-> "p1", author |-> "u1",
     title |-> <<"$","A","A","P","L">>,
     selftext |-> <<"g","m","e"," ","A","A","P","L">>,
     comments |-> <<
        [id |-> "c1", author |-> "u2", body |-> <<"T","S","L","A">>,
         depth |-> 1],
        [id |-> "c2", author |-> NULL,
         body |-> <<"A","A","P","L"," ","t","s","l","a">>, depth |-> 0] >>]

FeedPost2 ==
    [id |-> "p2", author |-> "u2",
     title |-> <<"t","s","l","a"," ","o","n">>,
     selftext |-> <<>>,
     comments |-> <<>>]

FeedPost3 ==
    [id |-> "p3", author |-> NULL,
     title |-> <<"A","A","P","L">>,
     selftext |-> <<>>,
     comments |-> <<
        [id |-> "c5", author |-> "u1", body |-> <<"T","S","L","A">>,
         depth |-> 1],
        [id |-> "c6", author |-> "u2", body |-> <<"A","A","P","L">>,
         depth |-> 0],
        [id |-> "c7", author |-> NULL, body |-> <<"T","S","L","A">>,
         depth |-> 0] >>]

FeedChoices == {<<>>, <<FeedPost1>>, <<FeedPost2>>, <<FeedPost3>>,
                <<FeedPost1, FeedPost2>>, <<FeedPost2, FeedPost1>>}

\* the tickers table before the run
TickerTables == {{}, {[symbol |-> AAPL, aktiv |-> 0]},
                 {[symbol |-> GME, aktiv |-> 1]}}

\* the ticker file: absent, or its lines (first column), header first
TickerFiles == {
    [exists |-> FALSE, lines |-> <<>>],
    [exists |-> TRUE, lines |-> << <<"s","y","m","b","o","l">>, TSLA >>],
    [exists |-> TRUE,
     lines |-> << <<"s","y","m","b","o","l">>, <<" ","g","m","e"," ">>,
                  <<"T","O","O","L","O","N","G">>, <<"A","1">> >>] }

\* the redditors table before the run; link_karma <<>> is NULL
RedditorTables == {{}, {[id |-> "u1", link_karma |-> <<>>]}}

\* ORDER BY id over the author names
AuthorOrder == <<"u1", "u2">>

KarmaValues == {0, 5}

\* seq[:n]
Take(seq, n) == SubSeq(seq, 1, IF n < Len(seq) THEN n ELSE Len(seq))

\* variant of ensure_sample_tickers: INSERT OR REPLACE
ensure_sample_tickers_replace(tbl) ==
    {t \in tbl : t.symbol \notin {AAPL, TSLA}}
    \cup {[symbol |-> sym, aktiv |-> 1] : sym \in {AAPL, TSLA}}

\* INSERT OR IGNORE INTO tickers(..., aktiv) VALUES(..., 1) for AAPL and TSLA
ensure_sample_tickers(tbl) ==
    tbl \cup {[symbol |-> sym, aktiv |-> 1] :
                 sym \in {x \in {AAPL, TSLA} :
                             ~\E t \in tbl : t.symbol = x}}

\* SELECT symbol FROM tickers WHERE aktiv=1
fetch_known_tickers(tbl) == {t.symbol : t \in {x \in tbl : x.aktiv = 1}}

\* load_ticker_white_list(path)
load_ticker_white_list(f) ==
    IF ~f.exists THEN {}
    ELSE {Upper(Strip(f.lines[i])) :
             i \in {j \in 2..Len(f.lines) :
                       LET sym == Upper(Strip(f.lines[j]))
                       IN  Len(sym) \in 1..5 /\ StrIsAlpha(sym)}}

\* variant of CrawlWhitelist: only the symbols of the ticker file
CrawlWhitelist_fileOnly(known, loaded) == loaded

\* whitelist = fetch_known_tickers(cur) | load_ticker_white_list(...)
CrawlWhitelist(known, loaded) == known \cup loaded

\* queue_redditor: INSERT OR IGNORE INTO redditors(id), nothing for None
queue_redditor(tbl, name) ==
    IF name = NULL \/ (\E r \in tbl : r.id = name) THEN tbl
    ELSE tbl \cup {[id |-> name, link_karma |-> <<>>]}

\* insert_post: INSERT OR IGNORE INTO posts
insert_post(tbl, p) ==
    IF \E r \in tbl : r.id = p.id THEN tbl
    ELSE tbl \cup {[id |-> p.id, author_id |-> p.author]}

\* insert_comment: INSERT OR IGNORE INTO comments
insert_comment(tbl, cm, pid) ==
    IF \E r \in tbl : r.id = cm.id THEN tbl
    ELSE tbl \cup {[id |-> cm.id, post_id |-> pid, author_id |-> cm.author]}

\* variant of SortByDepth: comments of equal depth in reverse order
RECURSIVE SortByDepth_unstable(_)
SortByDepth_unstable(cs) ==
    IF cs = <<>> THEN <<>>
    ELSE LET k == CHOOSE i \in DOMAIN cs :
                      /\ \A j \in DOMAIN cs : cs[i].depth <= cs[j].depth
                      /\ \A j \in (i + 1)..Len(cs) :
                            cs[j].depth /= cs[i].depth
         IN  <<cs[k]>>
             \o SortByDepth_unstable(SubSeq(cs, 1, k - 1)
                                     \o SubSeq(cs, k + 1, Len(cs)))

\* comments.sort(key=lambda c: c.depth): stable
RECURSIVE SortByDepth(_)
SortByDepth(cs) ==
    IF cs = <<>> THEN <<>>
    ELSE LET k == CHOOSE i \in DOMAIN cs :
                      /\ \A j \in DOMAIN cs : cs[i].depth <= cs[j].depth
                      /\ \A j \in 1..(i - 1) : cs[j].depth /= cs[i].depth
         IN  <<cs[k]>>
             \o SortByDepth(SubSeq(cs, 1, k - 1) \o SubSeq(cs, k + 1, Len(cs)))

\* comments[: self.comment_limit] of the sorted list
ProcessedComments(p, limit) == Take(SortByDepth(p.comments), limit)

\* variant of PostText: the title only
PostText_titleOnly(p) == p.title

\* f"{post.title} {post.selftext}"
PostText(p) == p.title \o <<" ">> \o p.selftext

\* variant of CommentMentions: the rows also carry the id of the post
CommentMentions_withPostId(cm, p, wl, day) ==
    LET toks == extract_mentions(cm.body, wl)
    IN  [k \in 1..Len(toks) |->
            [symbol |-> toks[k], post_id |-> p.id, comment_id |-> cm.id,
             source |-> "comment", created_at |-> day]]

\* insert_mention(cur, m, None, cm.id, "comment", ...) for the tokens of a
\* comment
CommentMentions(cm, p, wl, day) ==
    LET toks == extract_mentions(cm.body, wl)
    IN  [k \in 1..Len(toks) |->
            [symbol |-> toks[k], post_id |-> NULL, comment_id |-> cm.id,
             source |-> "comment", created_at |-> day]]

\* variant of PostMentions: no rows for a post that is already stored
PostMentions_skipStored(p, wl, day) ==
    LET toks == IF \E r \in posts : r.id = p.id THEN <<>>
                ELSE extract_mentions(PostText(p), wl)
    IN  [k \in 1..Len(toks) |->
            [symbol |-> toks[k], post_id |-> p.id, comment_id |-> NULL,
             source |-> "post", created_at |-> day]]

\* insert_mention(cur, m, post.id, None, "post", ...) for the tokens of a post
PostMentions(p, wl, day) ==
    LET toks == extract_mentions(PostText(p), wl)
    IN  [k \in 1..Len(toks) |->
            [symbol |-> toks[k], post_id |-> p.id, comment_id |-> NULL,
             source |-> "post", created_at |-> day]]

\* the writes of the comment loop of one post, db = [redditors, comments,
\* mentions]
RECURSIVE CommentLoop(_, _, _, _, _)
CommentLoop(db, cms, p, wl, day) ==
    IF cms = <<>> THEN db
    ELSE LET cm == Head(cms)
         IN  CommentLoop(
                 [redditors |-> queue_redditor(db.redditors, cm.author),
                  comments  |-> insert_comment(db.comments, cm, p.id),
                  mentions  |-> db.mentions \o CommentMentions(cm, p, wl, day)],
                 Tail(cms), p, wl, day)

\* SELECT id FROM redditors WHERE link_karma IS NULL ORDER BY id LIMIT batch
EnrichRows(tbl, batch) ==
    Take(SelectSeq(AuthorOrder,
                   LAMBDA a : \E r \in tbl : r.id = a /\ r.link_karma = <<>>),
         batch)

\* UPDATE redditors SET link_karma = ? WHERE id = ?
SetKarma(tbl, name, karma) ==
    {IF r.id = name THEN [r EXCEPT !.link_karma = <<karma>>] ELSE r :
        r \in tbl}

\* the entries of the log of one enrichment batch: a profile fetch
\* (r._fetch()) and a time.sleep, in milliseconds
FetchEvent == [ev |-> "fetch", ms |-> 0]

SleepEvent(ms) == [ev |-> "sleep", ms |-> ms]

\* time.sleep(60 / MAX_AUTHORS_PER_MIN), in milliseconds
PerItemSleep == 60000 \div MAX_AUTHORS_PER_MIN

\* int(exc.response.headers.get("Retry-After", 60))
RetryAfterChoices == {1, 60}

\* what one iteration of the loop of enrich_authors fetches and sleeps
EnrichLog(outcome, retry) ==
    IF outcome = "ok" THEN <<FetchEvent, SleepEvent(PerItemSleep)>>
    ELSE IF outcome = "ratelimit"
         THEN <<FetchEvent, SleepEvent((retry + 1) * 1000)>>
         ELSE <<FetchEvent>>

\* variant of NextAuthor: the loop goes on after a rate-limit signal
NextAuthor_noBreak(e, outcome) == e.i + 1

\* the index of the next iteration: break after a rate-limit signal
NextAuthor(e, outcome) ==
    IF outcome = "ratelimit" THEN Len(e.rows) + 1 ELSE e.i + 1

\* the start of an enrichment batch
EnrichStart(tbl, batch) ==
    [rows |-> EnrichRows(tbl, batch), i |-> 1, log |-> <<>>,
     signal |-> <<>>]

\* the tables the post loop writes, as committed
Stored ==
    [posts |-> posts, redditors |-> redditors, comments |-> comments,
     mentions |-> mentions]

\* the posts table ps together with the tables w of the comment loop
WithPosts(ps, w) ==
    [posts |-> ps, redditors |-> w.redditors, comments |-> w.comments,
     mentions |-> w.mentions]

\* the tables after the first writes of the iteration for post p: nothing
\* (stage 0), the author and the post row (1), the mentions of the post (2),
\* the first stage - 2 processed comments with their mentions
Working(p, cms, stage) ==
    LET base == [redditors |-> redditors, comments |-> comments,
                 mentions |-> mentions]
        s1   == [base EXCEPT
                   !.redditors = queue_redditor(redditors, p.author)]
        s2   == [s1 EXCEPT
                   !.mentions = mentions
                                \o PostMentions(p, whitelist, today)]
    IN  WithPosts(IF stage = 0 THEN posts ELSE insert_post(posts, p),
                  IF stage = 0 THEN base
                  ELSE IF stage = 1 THEN s1
                  ELSE CommentLoop(s2, Take(cms, stage - 2), p, whitelist,
                                   today))

\* variant of Rollback: the uncommitted writes stay
Rollback_keepWorking(committed, working) == working

\* the connection context manager leaves on an exception: rollback to the
\* last commit
Rollback(committed, working) == committed

\* the tables of the database file when the transaction has ended
Persist(db) ==
    /\ posts' = db.posts
    /\ redditors' = db.redditors
    /\ comments' = db.comments
    /\ mentions' = db.mentions

MaxRuns == 2

KRunning == kpc \in {"start", "posts", "alerts", "enrich"}

InitCrawl ==
    /\ kcfg \in [post_limit : 1..MaxPostLimit,
                 comment_limit : 0..MaxCommentLimit,
                 alert_th : Thresholds,
                 enrich_only : BOOLEAN,
                 batch : {MAX_AUTHORS_PER_MIN}]
    /\ feed \in FeedChoices
    /\ tickers \in TickerTables
    /\ ticker_file \in TickerFiles
    /\ redditors \in RedditorTables
    /\ whitelist = {} /\ kidx = 1
    /\ enr = [rows |-> <<>>, i |-> 1, log |-> <<>>, signal |-> <<>>]
    /\ crawl_exit = <<>>
    /\ krun = 1
    /\ upstream = AnyAnswer
    /\ kpc = "start"
    /\ posts = {} /\ comments = {} /\ mentions = <<>>
    /\ daily_stats = {} /\ trend_alerts = {}
    /\ today = 1
    /\ next_id = [ds |-> 1, ta |-> 1]
    /\ lastOp = "init"
    /\ XIdle /\ CIdle /\ BIdle

\* crawl() up to the first commit: ensure_sample_tickers, the whitelist,
\* upsert_subreddit, conn.commit()
CrawlStart ==
    /\ kpc = "start"
    /\ ~kcfg.enrich_only
    /\ tickers' = ensure_sample_tickers(tickers)
    /\ whitelist' = CrawlWhitelist(fetch_known_tickers(tickers'),
                                   load_ticker_white_list(ticker_file))
    /\ kpc' = "posts"
    /\ Did("crawl_start")
    /\ UNCHANGED <<kcfg, feed, ticker_file, redditors, kidx, enr, crawl_exit,
                   krun, upstream>>
    /\ UNCHANGED <<posts, comments, mentions, daily_stats, trend_alerts,
                   today, next_id>>
    /\ UNCHANGED xvars /\ UNCHANGED cvars /\ UNCHANGED bvars

\* crawl() with enrich_only: only enrich_authors runs
CrawlEnrichOnly ==
    /\ kpc = "start"
    /\ kcfg.enrich_only
    /\ enr' = EnrichStart(redditors, kcfg.batch)
    /\ kpc' = "enrich"
    /\ Did("enrich_select")
    /\ UNCHANGED <<kcfg, feed, tickers, ticker_file, whitelist, redditors,
                   kidx, crawl_exit, krun, upstream>>
    /\ UNCHANGED <<posts, comments, mentions, daily_stats, trend_alerts,
                   today, next_id>>
    /\ UNCHANGED xvars /\ UNCHANGED cvars /\ UNCHANGED bvars

\* one iteration of the post loop, up to its conn.commit()
CrawlPost ==
    /\ kpc = "posts"
    /\ kidx <= Len(Take(feed, kcfg.post_limit))
    /\ LET p   == feed[kidx]
           cms == ProcessedComments(p, kcfg.comment_limit)
       IN  Persist(Working(p, cms, Len(cms) + 2))
    /\ kidx' = kidx + 1
    /\ Did("insert")
    /\ UNCHANGED <<kpc, kcfg, feed, tickers, ticker_file, whitelist, enr,
                   crawl_exit, krun, upstream>>
    /\ UNCHANGED <<daily_stats, trend_alerts, today, next_id>>
    /\ UNCHANGED xvars /\ UNCHANGED cvars /\ UNCHANGED bvars

\* an exception inside the iteration for a post, after some of its writes
\* (nothing catches it in the loop): the connection rolls back to the last
\* commit, main() logs the exception and calls sys.exit(1)
CrawlPostFails(stage) ==
    /\ kpc = "posts"
    /\ kidx <= Len(Take(feed, kcfg.post_limit))
    /\ LET p   == feed[kidx]
           cms == ProcessedComments(p, kcfg.comment_limit)
       IN  /\ stage \in 0..(Len(cms) + 2)
           /\ Persist(Rollback(Stored, Working(p, cms, stage)))
    /\ kpc' = "failed"
    /\ crawl_exit' = <<SysExit([kind |-> "int", val |-> 1])>>
    /\ UNCHANGED <<kcfg, feed, tickers, ticker_file, whitelist, kidx, enr,
                   krun, upstream>>
    /\ UNCHANGED <<daily_stats, trend_alerts, today, next_id, lastOp>>
    /\ UNCHANGED xvars /\ UNCHANGED cvars /\ UNCHANGED bvars

\* update_daily_stats(conn) after the post loop
CrawlDailyStats ==
    /\ kpc = "posts"
    /\ kidx > Len(Take(feed, kcfg.post_limit))
    /\ LET st == DailyStatsFrom([rows |-> daily_stats, next |-> next_id.ds],
                                1, today)
       IN  /\ daily_stats' = st.rows
           /\ next_id' = [next_id EXCEPT !.ds = st.next]
    /\ kpc' = "alerts"
    /\ Did("update_daily_stats")
    /\ UNCHANGED <<kcfg, feed, tickers, ticker_file, whitelist, redditors,
                   kidx, enr, crawl_exit, krun, upstream>>
    /\ UNCHANGED <<posts, comments, mentions, trend_alerts, today>>
    /\ UNCHANGED xvars /\ UNCHANGED cvars /\ UNCHANGED bvars

\* update_trend_alerts(conn, self.alert_th), the export and the report, and
\* the SELECT of enrich_authors
CrawlTrendAlerts ==
    /\ kpc = "alerts"
    /\ LET sel == SelectSpikes(kcfg.alert_th, today)
           st  == TrendAlertsFrom([rows |-> trend_alerts,
                                   next |-> next_id.ta],
                                  sel, kcfg.alert_th, today)
       IN  /\ trend_alerts' = st.rows
           /\ next_id' = [next_id EXCEPT !.ta = st.next]
    /\ enr' = EnrichStart(redditors, kcfg.batch)
    /\ kpc' = "enrich"
    /\ Did("update_trend_alerts")
    /\ UNCHANGED <<kcfg, feed, tickers, ticker_file, whitelist, redditors,
                   kidx, crawl_exit, krun, upstream>>
    /\ UNCHANGED <<posts, comments, mentions, daily_stats, today>>
    /\ UNCHANGED xvars /\ UNCHANGED cvars /\ UNCHANGED bvars

\* one iteration of the loop of enrich_authors: the profile is fetched and
\* stored ("ok", then the per-item sleep), does not exist ("notfound":
\* link_karma = 0), the API answers 429 ("ratelimit": sleep(retry + 1),
\* break), or another exception is logged ("error").  Where upstream fixes
\* the answer for an author, the fetch gives that answer.
EnrichAuthor(outcome, karma, retry) ==
    /\ kpc = "enrich"
    /\ enr.i <= Len(enr.rows)
    /\ upstream[enr.rows[enr.i]] \in {"any", outcome}
    /\ redditors' =
          IF outcome = "ok" THEN SetKarma(redditors, enr.rows[enr.i], karma)
          ELSE IF outcome = "notfound"
               THEN SetKarma(redditors, enr.rows[enr.i], 0)
               ELSE redditors
    /\ enr' = [enr EXCEPT
                 !.i = NextAuthor(enr, outcome),
                 !.log = enr.log \o EnrichLog(outcome, retry),
                 !.signal = IF outcome = "ratelimit" THEN <<retry>>
                            ELSE enr.signal]
    /\ Did("enrich")
    /\ UNCHANGED <<kpc, kcfg, feed, tickers, ticker_file, whitelist, kidx,
                   crawl_exit, krun, upstream>>
    /\ UNCHANGED <<posts, comments, mentions, daily_stats, trend_alerts,
                   today, next_id>>
    /\ UNCHANGED xvars /\ UNCHANGED cvars /\ UNCHANGED bvars

\* enrich_authors and crawl() return, main() returns
CrawlDone ==
    /\ kpc = "enrich"
    /\ enr.i > Len(enr.rows)
    /\ kpc' = "done"
    /\ crawl_exit' = <<SysExit([kind |-> "none", val |-> 0])>>
    /\ UNCHANGED <<kcfg, feed, tickers, ticker_file, whitelist, redditors,
                   kidx, enr, krun, upstream>>
    /\ UNCHANGED dvars
    /\ UNCHANGED xvars /\ UNCHANGED cvars /\ UNCHANGED bvars

\* KeyboardInterrupt in main(): logged, main() returns
CrawlInterrupt ==
    /\ KRunning
    /\ kpc' = "interrupted"
    /\ crawl_exit' = <<SysExit([kind |-> "none", val |-> 0])>>
    /\ UNCHANGED <<kcfg, feed, tickers, ticker_file, whitelist, redditors,
                   kidx, enr, krun, upstream>>
    /\ UNCHANGED dvars
    /\ UNCHANGED xvars /\ UNCHANGED cvars /\ UNCHANGED bvars

\* a later run of the program on the same database, after a completed one:
\* the same day, the same arguments, the forum serves the same posts
CrawlAgain ==
    /\ kpc = "done"
    /\ kcfg.enrich_only \/ krun < MaxRuns
    /\ krun' = IF kcfg.enrich_only THEN krun ELSE krun + 1
    /\ kpc' = "start"
    /\ kidx' = 1
    /\ whitelist' = {}
    /\ enr' = [rows |-> <<>>, i |-> 1, log |-> <<>>, signal |-> <<>>]
    /\ crawl_exit' = <<>>
    /\ lastOp' = "init"
    /\ UNCHANGED <<kcfg, feed, tickers, ticker_file, redditors, upstream>>
    /\ UNCHANGED <<posts, comments, mentions, daily_stats, trend_alerts,
                   today, next_id>>
    /\ UNCHANGED xvars /\ UNCHANGED cvars /\ UNCHANGED bvars

NextCrawl ==
    \/ CrawlStart
    \/ CrawlEnrichOnly
    \/ CrawlPost
    \/ \E stage \in 0..(MaxCommentLimit + 2) : CrawlPostFails(stage)
    \/ CrawlDailyStats
    \/ CrawlTrendAlerts
    \/ \E outcome \in {"ok", "notfound", "ratelimit", "error"},
          karma \in KarmaValues, retry \in RetryAfterChoices :
           EnrichAuthor(outcome, karma, retry)
    \/ CrawlDone
    \/ CrawlInterrupt
    \/ CrawlAgain

SpecCrawl == InitCrawl /\ [][NextCrawl]_vars

(***************************************************************************)
(* Repeated enrichment runs (--enrich-only), every profile fetch of an     *)
(* author with the same outcome, no rate-limit signal                      *)
(***************************************************************************)
\* values of the parameter batch of enrich_authors
EnrichBatches == {1, MAX_AUTHORS_PER_MIN}

\* redditors tables: each author not queued, queued, or enriched already
EnrichTables ==
    UNION {{{[id |-> a, link_karma |-> f[a]] : a \in S} :
               f \in [S -> {<<>>, <<5>>}]} : S \in SUBSET AuthorNames}

\* what the profile fetch of each author does, in every run
FetchOutcomes == [AuthorNames -> {"ok", "notfound", "error"}]

InitEnrich ==
    /\ kcfg \in [post_limit : {1}, comment_limit : {0}, alert_th : {1},
                 enrich_only : {TRUE}, batch : EnrichBatches]
    /\ redditors \in EnrichTables
    /\ upstream \in FetchOutcomes
    /\ feed = <<>> /\ tickers = {}
    /\ ticker_file = [exists |-> FALSE, lines |-> <<>>]
    /\ whitelist = {} /\ kidx = 1
    /\ enr = [rows |-> <<>>, i |-> 1, log |-> <<>>, signal |-> <<>>]
    /\ crawl_exit = <<>>
    /\ krun = 1
    /\ kpc = "start"
    /\ DIdle /\ XIdle /\ CIdle /\ BIdle

NextEnrich ==
    \/ CrawlEnrichOnly
    \/ \E outcome \in {"ok", "notfound", "error"}, karma \in KarmaValues :
           EnrichAuthor(outcome, karma, 60)
    \/ CrawlDone
    \/ CrawlAgain

\* the runs are scheduled again and again and each run goes on to its end
SpecEnrichFair == InitEnrich /\ [][NextEnrich]_vars /\ WF_vars(NextEnrich)

(***************************************************************************)
(* Properties of the Mention Extractor                                     *)
(***************************************************************************)
\* a string of 1 to 5 letters A-Z
TickerShaped(s) == Len(s) \in 1..5 /\ \A i \in DOMAIN s : IsAZ(s[i])

\* the positions where a maximal run of word characters of u starts
RunStarts(u) ==
    {i \in DOMAIN u : IsWord(u[i]) /\ (i = 1 \/ ~IsWord(u[i - 1]))}

\* the last position of the maximal run of word characters that starts at i
RunEnd(u, i) ==
    CHOOSE j \in i..Len(u) :
        /\ \A n \in i..j : IsWord(u[n])
        /\ (j = Len(u) \/ ~IsWord(u[j + 1]))

\* the set S of numbers in ascending order
RECURSIVE Ascending(_)
Ascending(S) ==
    IF S = {} THEN <<>>
    ELSE LET m == CHOOSE x \in S : \A y \in S : x <= y
         IN  <<m>> \o Ascending(S \ {m})

\* the 1-5 letter tokens of u, in order of occurrence
TokensOf(u) ==
    LET st == Ascending({i \in RunStarts(u) :
                            TickerShaped(SubSeq(u, i, RunEnd(u, i)))})
    IN  [k \in DOMAIN st |-> SubSeq(u, st[k], RunEnd(u, st[k]))]

\* the positions of u where s stands as a whole token
OccurrencesOf(u, s) ==
    {i \in 1..(Len(u) - Len(s) + 1) :
        /\ SubSeq(u, i, i + Len(s) - 1) = s
        /\ (i = 1 \/ ~IsWord(u[i - 1]))
        /\ (i + Len(s) > Len(u) \/ ~IsWord(u[i + Len(s)]))}

Count(q, s) == Cardinality({k \in DOMAIN q : q[k] = s})

ExampleText ==
    <<"B","u","y"," ","$","A","A","P","L"," ","o","r"," ","g","o"," ",
      "a","l","l","-","i","n"," ","o","n"," ","T","S","L","A","!">>

\* the call of test_regex_extracts_prefixed_and_plain
ExampleResult == extract_mentions(ExampleText, {AAPL, TSLA})

\* the call of test_regex_ignores_words_longer_than_5
BananasResult == TICKER_RE_findall(<<"B","A","N","A","N","A","S">>)

\* C1: whatever the text and the whitelist, extract_mentions returns only
\* tokens of the whitelist and no token of the AMBIGUOUS list, also when the
\* whitelist contains AMBIGUOUS words.
C1_OnlyAllowedNeverAmbiguous ==
    xpc = "done" =>
        \A k \in DOMAIN found :
            found[k] \in allowed /\ found[k] \notin AMBIGUOUS

\* C1 witness: the whitelist holds the AMBIGUOUS word T, T stands in the
\* text as a token, and the call has returned something.
C1_Witness ==
    /\ xpc = "done"
    /\ <<"T">> \in allowed \cap AMBIGUOUS
    /\ OccurrencesOf(Upper(text), <<"T">>) /= {}
    /\ found /= <<>>

\* C2: extract_mentions returns, in order of occurrence, one entry per
\* occurrence of a 1-5 letter token (case-insensitive, with or without "$")
\* that is in the whitelist and not AMBIGUOUS; the example of test_regex.py
\* yields [AAPL, TSLA].
C2_EveryOccurrenceInOrder ==
    /\ xpc = "done" =>
          found = SelectSeq(TokensOf(Upper(text)),
                            LAMBDA m : m \in allowed /\ m \notin AMBIGUOUS)
    /\ ExampleResult = <<AAPL, TSLA>>

\* C2 witness: a lower-case token and a "$"-prefixed token are both reported.
C2_Witness ==
    /\ xpc = "done"
    /\ Len(found) >= 2
    /\ \E i \in DOMAIN text : text[i] = "t"
    /\ \E i \in DOMAIN text : text[i] = "$" /\ i < Len(text)
                              /\ IsAZ(text[i + 1])
    /\ <<"T","A">> \in Range(found)

\* the maximal run of letters around position i of t
LetterRunLen(t, i) ==
    LET lo == CHOOSE a \in 1..i :
                  /\ \A n \in a..i : IsAlpha(t[n])
                  /\ (a = 1 \/ ~IsAlpha(t[a - 1]))
        hi == CHOOSE b \in i..Len(t) :
                  /\ \A n \in i..b : IsAlpha(t[n])
                  /\ (b = Len(t) \/ ~IsAlpha(t[b + 1]))
    IN  hi - lo + 1

\* C6: TICKER_RE.findall produces no candidate out of a run of more than 5
\* consecutive letters ("BANANAS" gives no match).
C6_NoCandidateFromLongRun ==
    /\ xpc = "scanned" =>
          \A k \in DOMAIN spans : LetterRunLen(text, spans[k][1]) <= 5
    /\ BananasResult = <<>>

\* C6 witness: the text holds a run of six letters A-Z and a short token;
\* only the short token is returned.
C6_Witness ==
    /\ xpc = "scanned"
    /\ \E i \in DOMAIN text : IsAZ(text[i]) /\ LetterRunLen(text, i) = 6
                              /\ \A n \in i..(i + 5) :
                                    n \in DOMAIN text /\ IsAZ(text[n])
    /\ Len(found) = 1

\* C7 as stated: no symbol appears more than once in the result of
\* extract_mentions for one text.
C7_Original_NoSymbolTwice ==
    xpc = "done" =>
        \A j, k \in DOMAIN found : found[j] = found[k] => j = k

\* C7 amended: every symbol appears in the result exactly as often as it
\* stands in the upper-cased text as a whole token (never for a symbol that
\* is AMBIGUOUS or not 1-5 letters), so a symbol occurring n times appears
\* n times.
C7_CountEqualsOccurrences ==
    xpc = "done" =>
        \A s \in allowed :
            Count(found, s) =
                IF TickerShaped(s) /\ s \notin AMBIGUOUS
                THEN Cardinality(OccurrencesOf(Upper(text), s))
                ELSE 0

\* C7 witness: a symbol is reported twice for one text.
C7_Witness ==
    /\ xpc = "done"
    /\ \E j, k \in DOMAIN found : j < k /\ found[j] = found[k]

(***************************************************************************)
(* Properties of the Symbol Normalizer                                     *)
(***************************************************************************)
\* [A-Z]{lo,hi}
LettersAZ(s, lo, hi) == Len(s) \in lo..hi /\ \A i \in DOMAIN s : IsAZ(s[i])

SlashCount(s) == Cardinality({i \in DOMAIN s : s[i] = "/"})

\* the raw string r was accepted by the call
Accepted(r) == Normalize(r) \in cleaned

\* C3: a string with exactly one "/" (after trimming, upper-casing and
\* replacing "." by "/") is accepted iff the segment left of the slash is
\* 1 to 4 letters A-Z and the segment right of it is exactly one letter A-Z.
C3_SlashAcceptedIffLetterSegments ==
    cpc = "done" =>
        \A r \in raw :
            LET sym == Normalize(r)
            IN  SlashCount(sym) = 1 =>
                    (Accepted(r) <=>
                        /\ LettersAZ(Partition(sym)[1], 1, 4)
                        /\ LettersAZ(Partition(sym)[2], 1, 1))

\* C4: a string of length 1 is accepted iff it is in KEEP_SINGLE; the manual
\* stop-list and the frequency filter play no role.
C4_SingleLetterIffKeepSingle ==
    cpc = "done" =>
        \A r \in raw :
            LET sym == Normalize(r)
            IN  /\ Len(sym) = 1 => (Accepted(r) <=> sym \in KEEP_SINGLE)
                /\ (Len(r) = 1 /\ Len(sym) /= 1) => cleaned = {}

\* C4 witness: the one-letter input "F" is accepted although the frequency
\* filter classifies "f" as a common word.
C4_Witness ==
    /\ cpc = "done"
    /\ <<"f">> \in corpus
    /\ \E r \in raw : Normalize(r) = <<"F">> /\ Accepted(r)

\* C5 as stated: a string of 2 to 5 letters A-Z is accepted iff it is not in
\* the manual stop-list and not a common word for the frequency filter; every
\* string without "/" that is shorter than 2, longer than 5, or contains a
\* non-letter is rejected.
C5_Original_ShortRejected ==
    cpc = "done" =>
        \A r \in raw :
            LET sym == Normalize(r)
            IN  /\ LettersAZ(sym, 2, 5) =>
                      (Accepted(r) <=>
                          /\ sym \notin MANUAL_STOP
                          /\ ~looks_like_word(sym, corpus))
                /\ (/\ ~HasSlash(sym)
                    /\ (Len(sym) < 2 \/ Len(sym) > 5 \/ ~StrIsAlpha(sym)))
                      => ~Accepted(r)

\* C5 amended: a string of 2 to 5 letters A-Z is accepted iff it is not in
\* the manual stop-list and not a common word for the frequency filter; every
\* string without "/" that is longer than 5, contains a non-letter, or is
\* shorter than 2 and not in the one-letter keep-list, is rejected.
C5_LettersIffNotStopNotWord ==
    cpc = "done" =>
        \A r \in raw :
            LET sym == Normalize(r)
            IN  /\ LettersAZ(sym, 2, 5) =>
                      (Accepted(r) <=>
                          /\ sym \notin MANUAL_STOP
                          /\ ~looks_like_word(sym, corpus))
                /\ (/\ ~HasSlash(sym)
                    /\ \/ Len(sym) < 2 /\ sym \notin KEEP_SINGLE
                       \/ Len(sym) > 5
                       \/ ~StrIsAlpha(sym))
                      => ~Accepted(r)

\* C5 witness: a trimmed, upper-cased string of 2 to 5 letters is accepted.
C5_Witness ==
    /\ cpc = "done"
    /\ \E r \in raw : /\ LettersAZ(Normalize(r), 2, 5)
                      /\ r /= Normalize(r)
                      /\ Accepted(r)

(***************************************************************************)
(* Properties of the Aggregator                                            *)
(***************************************************************************)
AggregationRan == lastOp \in {"update_daily_stats", "rerun_daily_stats"}

\* the mention rows of symbol sym created on the current day
MentionsToday(sym) ==
    {i \in DOMAIN mentions :
        mentions[i].symbol = sym /\ mentions[i].created_at = today}

\* the author of the post or comment a mention row comes from
OriginAuthor(m) ==
    IF m.post_id /= NULL
    THEN (CHOOSE p \in posts : p.id = m.post_id).author_id
    ELSE (CHOOSE c \in comments : c.id = m.comment_id).author_id

\* C8: aggregation is idempotent: a run of update_daily_stats that directly
\* follows another run (same day, mention table unchanged) leaves the
\* DailyStat rows exactly as they were, and there is never more than one row
\* per (symbol, date).
C8_AggregationIdempotent ==
    /\ [][(AggregationRan /\ AggregationRan')
              => (daily_stats' = daily_stats /\ next_id' = next_id)]_vars
    /\ [](\A a, b \in daily_stats :
              (a.symbol = b.symbol /\ a.date = b.date) => a = b)

\* C8 witness: update_daily_stats has run twice in a row over a table that
\* holds two rows for today, one of them counting two mentions.
C8_Witness ==
    /\ lastOp = "rerun_daily_stats"
    /\ Cardinality({d \in daily_stats : d.date = today}) = 2
    /\ \E d \in daily_stats : d.date = today /\ d.mention_count = 2

\* C9: immediately after update_daily_stats every symbol with a mention
\* created today has one DailyStat row for today with mention_count = number
\* of today's mention rows of the symbol, post_mentions = those with a post
\* id, comment_mentions = those with a comment id, unique_authors = number of
\* distinct authors of the originating posts/comments; earlier values are
\* overwritten.
C9_StatsEqualTodaysMentions ==
    AggregationRan =>
        \A k \in DOMAIN Symbols :
            LET ms == MentionsToday(Symbols[k])
                rs == {d \in daily_stats :
                          d.symbol = Symbols[k] /\ d.date = today}
            IN  ms /= {} =>
                  /\ Cardinality(rs) = 1
                  /\ \A d \in rs :
                        /\ d.mention_count = Cardinality(ms)
                        /\ d.post_mentions = Cardinality(
                               {i \in ms : mentions[i].post_id /= NULL})
                        /\ d.comment_mentions = Cardinality(
                               {i \in ms : mentions[i].comment_id /= NULL})
                        /\ d.unique_authors = Cardinality(
                               {OriginAuthor(mentions[i]) : i \in ms}
                                   \ {NULL})

\* C9 witness: update_daily_stats has just replaced an earlier, smaller count
\* of today (the one an alert of today recorded) by a row that counts post
\* and comment mentions of two authors, while older mentions exist.
C9_Witness ==
    /\ AggregationRan
    /\ \E d \in daily_stats, a \in trend_alerts :
          /\ d.date = today /\ a.created_at = today /\ a.symbol = d.symbol
          /\ d.mention_count > a.current_value
          /\ d.post_mentions >= 1 /\ d.comment_mentions >= 1
          /\ d.unique_authors = 2
    /\ \E i \in DOMAIN mentions : mentions[i].created_at < today

SpikesToday(tbl) ==
    {a \in tbl : a.alert_type = "mention_spike" /\ a.created_at = today}

\* C11: a run of update_trend_alerts with threshold th creates a
\* mention_spike alert only for a symbol whose mention_count of today is at
\* or above th; after the run every symbol at or above th has a mention_spike
\* alert of today, and a symbol below th has got none from the run.
C11_AlertIffAtOrAboveThreshold ==
    [][\A th \in Thresholds :
          UpdateTrendAlerts(th) =>
              /\ \A a \in trend_alerts' \ trend_alerts :
                    /\ a.alert_type = "mention_spike"
                    /\ a.threshold = th
                    /\ \E d \in daily_stats :
                          /\ d.symbol = a.symbol /\ d.date = today
                          /\ d.mention_count >= th
                          /\ a.current_value = d.mention_count
              /\ \A d \in daily_stats :
                    (d.date = today /\ d.mention_count >= th)
                        => \E a \in SpikesToday(trend_alerts') :
                               a.symbol = d.symbol
              /\ \A d \in daily_stats :
                    (d.date = today /\ d.mention_count < th)
                        => ~\E a \in trend_alerts' \ trend_alerts :
                                a.symbol = d.symbol]_vars

\* C11 witness: after a run with threshold 2 one symbol, counted twice today,
\* has its alert, and the other symbol, counted once, has none.
C11_Witness ==
    /\ lastOp = "update_trend_alerts"
    /\ \E a \in SpikesToday(trend_alerts), d \in daily_stats :
          /\ a.threshold = 2 /\ a.current_value = 2
          /\ d.date = today /\ d.mention_count = 1
          /\ d.symbol /= a.symbol
          /\ ~\E b \in trend_alerts : b.symbol = d.symbol

(***************************************************************************)
(* Properties of the Whitelist Builder                                     *)
(***************************************************************************)
\* the fetch functions whose calls all returned
Fetched ==
    {Plan(args.markets)[k].fn : k \in 1..(call_idx - 1)}
    \ {Plan(args.markets)[k].fn : k \in call_idx..Len(Plan(args.markets))}

\* C12: when the fetch of one selected source fails (after its retries) while
\* another selected source has succeeded, the build still completes and
\* writes the non-empty merged set.
C12_BuildSurvivesOneFailedSource ==
    (bpc = "failed" /\ failed_call /= 0 /\ Fetched /= {} /\ bsymbols /= {})
        => (Len(file) >= 2 /\ build_exit = <<0>>)

\* C13: the retry wrapper makes at most 3 attempts; after the k-th failed
\* attempt (k < 3) it has waited pause * k; a successful attempt returns
\* with no wait after it and no further attempt of that call; the failure of
\* the last attempt propagates with no wait after it.
C13_RetryAtMostThreeWithGrowingPause ==
    [][/\ wrap'.att <= 3
       /\ \A k \in DOMAIN wrap'.slept : wrap'.slept[k] = pause * k
       /\ wrap'.res = "running" => Len(wrap'.slept) = wrap'.att
       /\ wrap'.res = "returned" => Len(wrap'.slept) = wrap'.att - 1
       /\ wrap'.res = "raised" => (wrap'.att = 3 /\ Len(wrap'.slept) = 2)
       /\ (wrap.res \in {"returned", "raised"} /\ wrap' /= wrap)
             => (wrap.res = "returned" /\ wrap'.call /= wrap.call
                 /\ wrap'.att = 1)]_vars

\* all three attempts of a call failed, after waits of 3 and 6 seconds
C13_Witness ==
    /\ wrap.res = "raised"
    /\ wrap.slept = <<3, 6>>
    /\ bpc = "failed"

\* C14: verify_with_yf returns exactly the symbols whose own lookup gave a
\* truthy result, whatever the order in which the lookups start and finish;
\* a lookup that raises or gives a falsy result excludes only its symbol.
C14_VerifiedAreExactlyTruthy ==
    [][VerifyReturn =>
          bsymbols' = {sym \in bsymbols : pool.state[sym] = "truthy"}]_vars

\* a verification of three symbols that finished in another order than
\* submitted, with one lookup truthy, one falsy and one raising
C14_Witness ==
    /\ bpc = "write"
    /\ Len(pool.done) = 3
    /\ pool.done /= pool.order
    /\ \E a, b, c \in DOMAIN pool.state :
          /\ pool.state[a] = "truthy"
          /\ pool.state[b] = "falsy"
          /\ pool.state[c] = "raised"
    /\ Cardinality(bsymbols) = 1

\* C15: without yfinance the verification makes no lookup and returns its
\* input unchanged, and the build goes on to write the file.
C15_NoYfinanceVerifyIsIdentity ==
    [][/\ ~yf_ok => (pool'.order = <<>> /\ pool'.done = <<>>)
       /\ (bpc = "verify" /\ ~yf_ok /\ bpc' /= "interrupted")
             => (bsymbols' = bsymbols /\ bpc' = "write")
       /\ (bpc = "write" /\ ~yf_ok /\ bpc' = "done")
             => file' = CsvRows(bsymbols)]_vars

\* a build with --verify and no yfinance wrote a file with symbols
C15_Witness ==
    /\ bpc = "done"
    /\ args.verify
    /\ ~yf_ok
    /\ Len(file) >= 3

\* C16: the file is the header row "symbol" followed by one symbol per row,
\* in strictly ascending order (so no symbol twice), each one accepted by the
\* Normalizer.
C16_FileSortedDistinctAccepted ==
    bpc = "done" =>
        /\ Len(file) >= 1
        /\ file[1] = <<"s","y","m","b","o","l">>
        /\ \A i \in 2..(Len(file) - 1) : StrLess(file[i], file[i + 1])
        /\ \A i \in 2..Len(file) : Accepts(file[i], corpus)

\* a file with at least three symbols, one of them a slash symbol
C16_Witness ==
    /\ bpc = "done"
    /\ Len(file) >= 4
    /\ \E i \in 2..Len(file) : HasSlash(file[i])

\* C18 (builder): the process exits with 0 after a successful build and after
\* a KeyboardInterrupt, and with a non-zero status after any other error.
C18_ExitCodes ==
    /\ bpc = "done" => build_exit = <<0>>
    /\ bpc = "interrupted" => build_exit = <<0>>
    /\ bpc = "failed" => (build_exit /= <<>> /\ build_exit /= <<0>>)

(***************************************************************************)
(* Properties of the Crawl                                                 *)
(***************************************************************************)
\* the symbols of a sequence of mention rows
SymbolsOf(rows) == [k \in 1..Len(rows) |-> rows[k].symbol]

\* the tokens the extractor returns for the bodies of a list of comments
RECURSIVE CommentTokens(_, _)
CommentTokens(cms, wl) ==
    IF cms = <<>> THEN <<>>
    ELSE extract_mentions(Head(cms).body, wl) \o CommentTokens(Tail(cms), wl)

\* the tokens of one post: title, a blank and selftext, then the bodies of
\* its processed comments
TokensOfPost(p, wl) ==
    extract_mentions(p.title \o <<" ">> \o p.selftext, wl)
    \o CommentTokens(Take(SortByDepth(p.comments), kcfg.comment_limit), wl)

\* the tokens of a list of posts
RECURSIVE TokensOfPosts(_, _)
TokensOfPosts(ps, wl) ==
    IF ps = <<>> THEN <<>>
    ELSE TokensOfPost(Head(ps), wl) \o TokensOfPosts(Tail(ps), wl)

\* k copies of a sequence, one after the other
RECURSIVE Repeat(_, _)
Repeat(seq, k) == IF k = 0 THEN <<>> ELSE seq \o Repeat(seq, k - 1)

\* the symbols of the active rows of the tickers table
ActiveTickers == {t.symbol : t \in {x \in tickers : x.aktiv = 1}}

\* a crawl (not in enrich-only mode) that has built its whitelist
WhitelistBuilt == ~kcfg.enrich_only /\ lastOp /= "init"

\* a crawl (not in enrich-only mode) whose post loop has ended
CrawlLoopOver ==
    ~kcfg.enrich_only /\ kpc \in {"alerts", "enrich", "done"}

C19_ExactlyOneOrigin ==
    \A i \in DOMAIN mentions :
        LET m == mentions[i]
        IN  /\ (m.post_id = NULL) /= (m.comment_id = NULL)
            /\ m.source = "post" <=> m.post_id /= NULL
            /\ m.source = "comment" <=> m.comment_id /= NULL

\* a completed crawl that wrote a mention of a post and one of a comment
C19_Witness ==
    /\ kpc = "done"
    /\ \E i, j \in DOMAIN mentions :
          /\ mentions[i].source = "post"
          /\ mentions[j].source = "comment"

\* C20: the mention table only grows at its end: no step changes or removes
\* an existing row, and an iteration of the post loop appends exactly one row
\* per token the extractor returns for title + " " + selftext and for the
\* body of each processed comment, in that order, repeated tokens included.
C20_MentionsAppendOnly ==
    [][/\ Len(mentions') >= Len(mentions)
       /\ SubSeq(mentions', 1, Len(mentions)) = mentions
       /\ CrawlPost =>
             SymbolsOf(SubSeq(mentions', Len(mentions) + 1, Len(mentions')))
                 = TokensOfPost(feed[kidx], whitelist)]_vars

\* a crawl stored two equal rows for a token that occurs twice in a post,
\* and rows of a second post after them
C20_Witness ==
    /\ kpc = "done"
    /\ kidx = 3
    /\ \E i, j \in DOMAIN mentions :
          /\ i < j
          /\ mentions[i] = mentions[j]
          /\ \E k \in DOMAIN mentions :
                k > j /\ mentions[k].post_id = "p2"

\* C21 as stated: after ensure_sample_tickers the active tickers contain AAPL
\* and TSLA whatever the table held before, and a second run changes nothing.
C21_Original_SamplesAlwaysActive ==
    WhitelistBuilt =>
        /\ {AAPL, TSLA} \subseteq fetch_known_tickers(tickers)
        /\ ensure_sample_tickers(tickers) = tickers

\* C21 (amended): after ensure_sample_tickers the active tickers contain AAPL
\* (TSLA) exactly when the table held no inactive row of that symbol before;
\* rows that existed are kept as they were, and a second run changes nothing.
C21_SamplesActiveUnlessDeactivated ==
    [][CrawlStart =>
          /\ \A sym \in {AAPL, TSLA} :
                sym \in fetch_known_tickers(tickers')
                    <=> ~\E t \in tickers : t.symbol = sym /\ t.aktiv /= 1
          /\ tickers \subseteq tickers'
          /\ \A sym \in {AAPL, TSLA} : \E t \in tickers' : t.symbol = sym
          /\ \A a, b \in tickers' : a.symbol = b.symbol => a = b
          /\ ensure_sample_tickers(tickers') = tickers']_vars

\* the table held an inactive AAPL row: TSLA was added as active, AAPL
\* stayed inactive
C21_Witness ==
    /\ WhitelistBuilt
    /\ [symbol |-> AAPL, aktiv |-> 0] \in tickers
    /\ TSLA \in fetch_known_tickers(tickers)
    /\ AAPL \notin whitelist

(***************************************************************************)
(* Properties of the Mention Extractor over Normalizer-shaped whitelists   *)
(***************************************************************************)
\* C27: every token extract_mentions returns is a string of 1 to 5 letters
\* A-Z; a whitelist symbol with "/" is never reported (and is not loaded
\* from a ticker file either), and of the one-letter keep-list F, T and K are
\* never reported.
C27_TokensAreLettersOnly ==
    xpc = "done" =>
        /\ \A i \in DOMAIN found :
              /\ Len(found[i]) \in 1..5
              /\ \A n \in DOMAIN found[i] : found[i][n] \in UpperSet
              /\ \A n \in DOMAIN found[i] : found[i][n] /= "/"
              /\ found[i] \notin {<<"F">>, <<"T">>, <<"K">>}
        /\ \A sym \in load_ticker_white_list(
                          [exists |-> TRUE, lines |-> CsvRows(allowed)]) :
              \A n \in DOMAIN sym : sym[n] /= "/"

\* the text holds the share-class symbol F/K of the whitelist and the letter
\* O: only O is reported
C27_Witness ==
    /\ xpc = "done"
    /\ <<"F","/","K">> \in allowed
    /\ Upper(text) = <<"F","/","K"," ","O">>
    /\ found = << <<"O">> >>

(***************************************************************************)
(* Algebraic properties of the Symbol Normalizer                           *)
(***************************************************************************)
\* C29: clean is idempotent and closed on its output: clean(clean(R)) =
\* clean(R), and every element of clean(R) is upper-case, has no whitespace
\* at either end and holds no ".".
C29_CleanIdempotentAndClosed ==
    cpc = "done" =>
        /\ clean(cleaned, corpus) = cleaned
        /\ \A s \in cleaned :
              /\ s /= <<>>
              /\ s[1] /= " " /\ s[Len(s)] /= " "
              /\ \A i \in DOMAIN s : s[i] \notin LowerSet /\ s[i] /= "."

\* a raw string with surrounding blanks, a lower-case letter and a "." was
\* accepted in its normalized form
C29_Witness ==
    /\ cpc = "done"
    /\ raw = {<<" ","F",".","d"," ">>}
    /\ cleaned = {<<"F","/","D">>}

(***************************************************************************)
(* Properties of the Crawl: commits, failures, repeated runs               *)
(***************************************************************************)
\* the tokens of one complete post loop
TokensOfRun == TokensOfPosts(Take(feed, kcfg.post_limit), whitelist)

\* how often sym occurs in a sequence of tokens
CountOf(toks, sym) == Cardinality({i \in DOMAIN toks : toks[i] = sym})

\* C22: writes are committed at post boundaries only: when the iteration for
\* the k-th post fails with an exception, the database holds every row
\* written for the posts 1..k-1 (and by earlier runs) and no row written
\* for post k.
C22_CommitPerPost ==
    /\ [][(\E stage \in 0..(MaxCommentLimit + 2) : CrawlPostFails(stage))
             => /\ posts' = posts /\ comments' = comments
                /\ mentions' = mentions /\ redditors' = redditors]_vars
    /\ [](kpc = "failed" =>
             /\ SymbolsOf(mentions)
                   = Repeat(TokensOfRun, krun - 1)
                     \o TokensOfPosts(Take(feed, kidx - 1), whitelist)
             /\ \A i \in 1..(kidx - 1) : \E r \in posts : r.id = feed[i].id
             /\ krun = 1 =>
                   \A r \in posts : \E i \in 1..(kidx - 1) : r.id = feed[i].id)

\* the second post of a run failed: the first post and its mentions are
\* stored, the second is not
C22_Witness ==
    /\ kpc = "failed"
    /\ krun = 1
    /\ kidx = 2
    /\ {r.id : r \in posts} = {feed[1].id}
    /\ Len(mentions) >= 2
    /\ Len(TokensOfPost(feed[2], whitelist)) >= 1

\* C23: a rate-limit signal during an enrichment batch makes enrich_authors
\* pause once, for the signalled duration (and the one second the code
\* adds), and end the batch: no further author is fetched, the updates
\* made so far stay, and the run ends normally.
C23_RateLimitStopsBatch ==
    [][/\ (enr.signal = <<>> /\ enr'.signal /= <<>>)
             => /\ redditors' = redditors
                /\ enr'.i > Len(enr'.rows)
                /\ enr'.log
                      = enr.log
                        \o << [ev |-> "fetch", ms |-> 0],
                              [ev |-> "sleep",
                               ms |-> (enr'.signal[1] + 1) * 1000] >>
                /\ kpc' = "enrich"
       /\ (enr.signal /= <<>> /\ kpc = "enrich")
             => /\ enr' = enr
                /\ redditors' = redditors
                /\ kpc' \in {"done", "interrupted"}
                /\ crawl_exit' = <<0>>]_vars

\* the first of two selected authors met the rate limit (Retry-After 60):
\* one sleep of 61 s, the second author was not fetched, the run ended with
\* exit status 0
C23_Witness ==
    /\ kpc = "done"
    /\ crawl_exit = <<0>>
    /\ Len(enr.rows) = 2
    /\ enr.log = << [ev |-> "fetch", ms |-> 0],
                    [ev |-> "sleep", ms |-> 61000] >>
    /\ \E r \in redditors : r.id = enr.rows[2] /\ r.link_karma = <<>>

\* C24: an unexpected exception while one item is processed (a post or
\* comment of the crawl, an author of the enrichment batch) skips only that
\* item: the run goes on with the next item and is not aborted.
C24_ItemExceptionSkipsOnlyItem ==
    [][/\ (\E stage \in 0..(MaxCommentLimit + 2) : CrawlPostFails(stage))
             => (kpc' = "posts" /\ kidx' = kidx + 1 /\ crawl_exit' = <<>>)
       /\ (\E karma \in KarmaValues, retry \in RetryAfterChoices :
              EnrichAuthor("error", karma, retry))
             => (kpc' = "enrich" /\ enr'.i = enr.i + 1
                 /\ crawl_exit' = <<>>)]_vars

\* C25: within one enrichment batch, the fixed sleep of
\* 60 / MAX_AUTHORS_PER_MIN seconds lies between any two consecutive profile
\* fetches, whatever the outcome of the earlier fetch.
C25_FixedSleepBetweenFetches ==
    \A k \in 2..Len(enr.log) :
        enr.log[k].ev = "fetch"
            => enr.log[k - 1] = [ev |-> "sleep",
                                 ms |-> 60000 \div MAX_AUTHORS_PER_MIN]

\* C26: a later run over a stored post adds no post row and no comment row
\* but appends its mention rows again; after k runs over the same posts on
\* one day and the aggregation, the mention_count of a symbol is k times the
\* number of its tokens in one run.
C26_RerunDuplicatesMentionsOnly ==
    /\ [](\A a, b \in posts : a.id = b.id => a = b)
    /\ [](\A a, b \in comments : a.id = b.id => a = b)
    /\ [][(CrawlPost /\ krun > 1)
             => /\ posts' = posts /\ comments' = comments
                /\ Len(mentions')
                      = Len(mentions)
                        + Len(TokensOfPost(feed[kidx], whitelist))]_vars
    /\ []((~kcfg.enrich_only /\ kpc \in {"alerts", "enrich", "done"}) =>
             \A sym \in {AAPL, GME, TSLA} :
                LET n == krun * CountOf(TokensOfRun, sym)
                    rows == {d \in daily_stats :
                                d.symbol = sym /\ d.date = today}
                IN  IF n = 0 THEN rows = {}
                    ELSE \E d \in rows : rows = {d} /\ d.mention_count = n)

\* after two runs over a post with its comments the post is stored once and
\* AAPL, found three times per run, has mention_count 6
C26_Witness ==
    /\ kpc = "done"
    /\ krun = 2
    /\ feed = <<FeedPost1>>
    /\ Cardinality(posts) = 1
    /\ Cardinality(comments) = 2
    /\ CountOf(TokensOfRun, AAPL) = 3
    /\ \E d \in daily_stats : d.symbol = AAPL /\ d.mention_count = 6

\* the position of the comment with id cid in the comment list of post p
PosOf(p, cid) == CHOOSE i \in DOMAIN p.comments : p.comments[i].id = cid

\* comment x of post p comes before comment y in the stable order by depth
Before(p, x, y) ==
    \/ p.comments[x].depth < p.comments[y].depth
    \/ p.comments[x].depth = p.comments[y].depth /\ x < y

\* C30: for each post at most comment_limit comments are processed, the
\* first comment_limit of the comment list stably sorted by depth: every
\* processed comment comes before every unprocessed one in that order, and
\* the processed comments are handled in that order.
C30_FirstCommentsByDepth ==
    [][CrawlPost =>
          LET p    == feed[kidx]
              done == {i \in DOMAIN p.comments :
                          \E c \in comments' : c.id = p.comments[i].id}
              new  == SubSeq(mentions', Len(mentions) + 1, Len(mentions'))
          IN  /\ Cardinality(done) <= kcfg.comment_limit
              /\ Cardinality(done) = kcfg.comment_limit
                    \/ done = DOMAIN p.comments
              /\ \A x \in done : \A y \in DOMAIN p.comments \ done :
                    Before(p, x, y)
              /\ \A a, b \in DOMAIN new :
                    (a < b /\ new[a].comment_id /= NULL)
                        => /\ new[b].comment_id /= NULL
                           /\ \/ new[a].comment_id = new[b].comment_id
                              \/ Before(p, PosOf(p, new[a].comment_id),
                                        PosOf(p, new[b].comment_id))]_vars

\* of three comments with depths 1, 0, 0 the two of depth 0 were processed,
\* in their original order
C30_Witness ==
    /\ feed = <<FeedPost3>>
    /\ kcfg.comment_limit = 2
    /\ kpc = "done"
    /\ {c.id : c \in comments} = {"c6", "c7"}
    /\ \E a, b \in DOMAIN mentions :
          /\ a < b
          /\ mentions[a].comment_id = "c6"
          /\ mentions[b].comment_id = "c7"

(***************************************************************************)
(* Properties of repeated enrichment runs                                  *)
(***************************************************************************)
\* author a is queued and not enriched
Pending(a) == \E r \in redditors : r.id = a /\ r.link_karma = <<>>

\* author a has a link_karma
Enriched(a) == \E r \in redditors : r.id = a /\ r.link_karma /= <<>>

\* C28: under repeated enrichment runs without rate-limit signals, every
\* queued author whose own profile fetch succeeds or reports not-found
\* eventually has a link_karma, whatever the fetches of the other authors
\* do, and an author with a link_karma is never selected again.
C28_AnswerableAuthorsGetEnriched ==
    /\ \A a \in AuthorNames :
          (Pending(a) /\ upstream[a] \in {"ok", "notfound"}) ~> Enriched(a)
    /\ [][\A a \in AuthorNames :
             (Enriched(a) /\ enr'.rows /= enr.rows)
                 => \A k \in DOMAIN enr'.rows : enr'.rows[k] /= a]_vars

=============================================================================
